---- MODULE Spec2Model ----
(***************************************************************************)
(* Dire Wolf (xdab/direwolf): the AX.25/HDLC serializer (hdlc_send.c),     *)
(* the HDLC deframer and the DCD matrix (hdlc_rec.c), the received-frame   *)
(* queue (dlq.c), the transmit scheduler (xmit.c) and the creation of the  *)
(* threads (xmit_init, recv_init), as state machines.                      *)
(*                                                                         *)
(* Every component has its own variables and its own specifications        *)
(* (SpecHdlc, SpecCount, SpecFlags, SpecAbort, SpecOverrun, SpecSlip,     *)
(* SpecNrzi and SpecL2; SpecDcd; SpecDlq, SpecDlqLive, SpecUntimed and     *)
(* SpecOverflow; SpecXmit with SpecTimeout, SpecStereo, SpecDuplex,        *)
(* SpecQueued, SpecBundle, SpecBits, SpecPersist and SpecWait;             *)
(* SpecBoot); a specification leaves the variables of the other            *)
(* components at their initial values, except that the transmit scheduler  *)
(* reads the DCD matrix, which changes under its specifications.           *)
(***************************************************************************)
EXTENDS Integers, Sequences, FiniteSets, TLC

(***************************************************************************)
(* Sizes of the program (direwolf.h).                                      *)
(***************************************************************************)

MAX_ADEVS == 3

MAX_RADIO_CHANS == MAX_ADEVS * 2

MAX_CHANS == MAX_RADIO_CHANS

MAX_SUBCHANS == 9

MAX_SLICERS == 9

ACHAN2ADEV(n) == n \div 2

Chans == 0 .. (MAX_CHANS - 1)

\* The configuration modelled: audio device 0 in stereo, its two channels
\* are the radio channels (chan_medium[c] = MEDIUM_RADIO).
RadioChans == {0, 1}

(***************************************************************************)
(* Frame lengths (ax25_pad.h: 15 octets and more than 256 in the program), *)
(* scaled down; the code only compares lengths against them.               *)
(***************************************************************************)

AX25_MIN_PACKET_LEN == 2

AX25_MAX_PACKET_LEN == 3

MIN_FRAME_LEN == AX25_MIN_PACKET_LEN + 2

MAX_FRAME_LEN == AX25_MAX_PACKET_LEN + 2

Bit == {0, 1}

\* The octet values payloads are built from: 0x00, 0x3E (five ones, then a
\* zero), 0x7E (the flag as data) and 0xFF.
ByteVals == {0, 62, 126, 255}

\* The length of the one long payload of all-ones octets.
LongLen == 64

RECURSIVE SeqsUpTo(_, _)
SeqsUpTo(S, n) ==
    IF n = 0 THEN {<<>>}
    ELSE LET shorter == SeqsUpTo(S, n - 1)
         IN  shorter \cup {Append(s, x) : s \in {t \in shorter : Len(t) = n - 1}, x \in S}

Ones(n) == [i \in 1 .. n |-> 255]

\* What fx25_send_frame returns: it cannot encode the frame (-1, 0), or the
\* number of bits it sent (1, or the bits of a block of Fx25Octets octets).
Fx25Octets == 56

Fx25Results == {-1, 0, 1, 8 * Fx25Octets}

\* Payloads handed to the serializer: every octet string over ByteVals of
\* length 0 .. AX25_MAX_PACKET_LEN (too short, and legal), and LongLen
\* octets 0xFF (longer than the deframer's frame buffer).
Payloads == SeqsUpTo(ByteVals, AX25_MAX_PACKET_LEN) \cup {Ones(LongLen)}

LegalPayload(p) == Len(p) >= AX25_MIN_PACKET_LEN /\ Len(p) <= AX25_MAX_PACKET_LEN

(***************************************************************************)
(* Bit operations on C integers.                                           *)
(***************************************************************************)

RECURSIVE Xor(_, _)
Xor(a, b) ==
    IF a = 0 THEN b
    ELSE IF b = 0 THEN a
    ELSE (((a % 2) + (b % 2)) % 2) + (2 * Xor(a \div 2, b \div 2))

\* x >> 1 on an unsigned char, then |= 0x80 when dbit is set.
ShiftIn8(x, dbit) == (x \div 2) + (IF dbit = 1 THEN 128 ELSE 0)

(***************************************************************************)
(* fcs_calc: the CCITT CRC-16 of AX.25 (initial value 0xFFFF, reflected    *)
(* polynomial 0x8408, final XOR 0xFFFF).                                    *)
(***************************************************************************)

\* One octet: eight shifts of the reflected polynomial.
RECURSIVE CrcBits(_, _)
CrcBits(crc, n) ==
    IF n = 0 THEN crc
    ELSE LET next == IF crc % 2 = 1 THEN Xor(crc \div 2, 33800) ELSE crc \div 2
         IN  IF next >= 0 THEN CrcBits(next, n - 1) ELSE 0

RECURSIVE CrcBytes(_, _, _)
CrcBytes(crc, data, j) ==
    IF j > Len(data) THEN crc
    ELSE LET next == CrcBits(Xor(crc, data[j]), 8)
         IN  IF next >= 0 THEN CrcBytes(next, data, j + 1) ELSE 0

fcs_calc(data) == Xor(CrcBytes(65535, data, 1), 65535)

(***************************************************************************)
(* State.                                                                  *)
(***************************************************************************)

VARIABLES
    \* hdlc_send.c
    output,                 \* static int output[MAX_CHANS] of send_bit_nrzi
    stuff,                  \* static int stuff[MAX_CHANS]
    number_of_bits_sent,    \* static int number_of_bits_sent[MAX_CHANS]
    line,                   \* the bits given to tone_gen_put_bit, per channel
    sent,                   \* the data bits given to send_bit_nrzi, per channel
    txchan,                 \* chan of the running ax25_only_hdlc_send_frame
    fbuf,                   \* its fbuf (flen = Len(fbuf))
    bad_fcs,                \* its bad_fcs
    spc,                    \* its position
    sj,                     \* its loop counter j
    sret,                   \* its return value
    layer2_xmit,            \* achan[chan].layer2_xmit of the audio configuration
    fx25,                   \* the call of fx25_send_frame by layer2_send_frame, and its result
    flagrun,                \* nbytes and finish of the last layer2_preamble_postamble,
                            \* and the calls of audio_flush so far
    \* hdlc_rec.c, the decoder hdlc_state[txchan][0][0]
    H,                      \* struct hdlc_state_s
    rxpos,                  \* number of bits of line[txchan] demodulated so far
    blocks,                 \* the calls of hdlc_rec2_block so far
    span,                   \* history: what the current flag-to-flag span saw
    burst,                  \* line held constant: -1 not yet, n > 0 bit times left, 0 over
    dbits,                  \* history: the data bits the decoder derived (dbit), in order
    levels,                 \* history: output[txchan] and prev_raw before the first bit
    \* hdlc_rec.c, data carrier detect
    num_subchan,            \* static int num_subchan[MAX_CHANS]
    composite_dcd,          \* static int composite_dcd[MAX_CHANS][MAX_SUBCHANS+1]
    txinh,                  \* what get_input(ICTYPE_TXINH, chan) returns now
    dcd_out,                \* the last ptt_set(OCTYPE_DCD, chan, .) of each channel
    dcd_last,               \* history: the (chan, sub, slice) whose last dcd_change had state 1
    \* dlq.c and recv.c
    heap,                   \* the struct dlq_item_s allocated so far; an item's address is its index
    queue_head,             \* static struct dlq_item_s *queue_head, 0 is NULL
    dlq_mutex,              \* owner of dlq_mutex, NoThread when free
    wake_up_mutex,          \* owner of wake_up_mutex
    recv_thread_is_waiting, \* static volatile int
    cond_signalled,         \* wake_up_cond has been signalled to the blocked waiter
    s_new_count,            \* static volatile int
    s_delete_count,         \* static volatile int, counted by dlq_delete
    complained,             \* "Received frame queue is out of control" was printed
    item_limit,             \* the items the receive threads allocate in the run
    ppc,                    \* per receive thread: position in dlq_rec_frame / append_to_queue
    pnew,                   \* per receive thread: pnew
    plast,                  \* per receive thread: plast
    ptmp,                   \* per receive thread: the value loaded for s_new_count++
    queue_length,           \* per receive thread: queue_length
    warned,                 \* per receive thread: its last append_to_queue printed the complaint
    cpc,                    \* position of the main thread in recv_process
    result,                 \* result of its dlq_remove
    timed_out,              \* timed_out_result of its dlq_wait_while_empty
    append_order,           \* history: items in the order their append took dlq_mutex
    removed,                \* history: the non-NULL results of dlq_remove, in order
    dispatched,             \* history: the items given to app_process_rec_packet, in order
    \* xmit.c, with the send queues of tq.c
    tq,                     \* tq[chan][prio]: the queued frames, head first
    xt,                     \* per channel: position and locals of its xmit_thread
    ptt,                    \* the last ptt_set(OCTYPE_PTT, chan, .) of each channel
    audio_out_dev_mutex,    \* static dw_mutex_t audio_out_dev_mutex[MAX_ADEVS], TRUE while held
    xmit_fulldup,           \* static int xmit_fulldup[MAX_CHANS]
    xmit_persist,           \* static int xmit_persist[MAX_CHANS]
    xmit_bits_per_sec,      \* static int xmit_bits_per_sec[MAX_CHANS]
    xmit_txdelay,           \* static int xmit_txdelay[MAX_CHANS]
    xmit_txtail,            \* static int xmit_txtail[MAX_CHANS]
    traffic,                \* the <<chan, prio, frame>> the applications of the run may append
    carrier_chans,          \* the channels on which stations are heard in the run
    rand_vals,              \* the values rand() & 0xff takes in the run
    already_pct,            \* how much of the computed duration of a transmission has
                            \* elapsed when audio_wait returns in the run, in percent
    frames_made,            \* number of packet objects made so far; a frame's id is its number
    cur_tx,                 \* history: frames sent since the last PTT on of each channel
    last_take,              \* history: the last removal from a queue by each xmit_thread
    taken,                  \* history: ids removed from tq[chan][prio], in order
    appended,               \* history: ids appended to tq[chan][prio], in order
    deleted,                \* history: ids given to ax25_delete
    discarded,              \* history: ids discarded after a timeout, with the PTT line then
    life,                   \* history: what has happened to each packet object, in order
    tx_log,                 \* history: the steps of the transmissions of each channel, in order
    made,                   \* history: the packet objects made so far
    \* xmit_init and recv_init
    boot                    \* position and locals of the running init function, the
                            \* configuration it reads, the threads created, what was printed

varsL2 == <<layer2_xmit, fx25>>

varsFlags == <<flagrun>>

varsSend == <<output, stuff, number_of_bits_sent, line, sent, txchan, fbuf, bad_fcs, spc, sj, sret,
              varsL2, varsFlags>>

varsRec == <<H, rxpos, blocks, span, burst, dbits, levels>>

varsHdlc == <<varsSend, varsRec>>

varsDcd == <<num_subchan, composite_dcd, txinh, dcd_out, dcd_last>>

varsDlqShared == <<heap, queue_head, dlq_mutex, wake_up_mutex, recv_thread_is_waiting,
                   cond_signalled, s_new_count, complained, item_limit>>

varsProd == <<ppc, pnew, plast, ptmp, queue_length, warned>>

varsCons == <<cpc, result, timed_out>>

varsDlqHist == <<append_order, removed, dispatched>>

varsDlqFree == <<s_delete_count>>

varsDlq == <<varsDlqShared, varsProd, varsCons, varsDlqHist, varsDlqFree>>

varsXmitCfg == <<xmit_fulldup, xmit_persist, xmit_bits_per_sec, xmit_txdelay, xmit_txtail,
                 traffic, carrier_chans, rand_vals, already_pct>>

varsXmitHist == <<cur_tx, last_take, taken, appended, deleted, discarded, life, tx_log,
                  made>>

varsXmit == <<tq, xt, ptt, audio_out_dev_mutex, frames_made, varsXmitCfg, varsXmitHist>>

varsBoot == <<boot>>

varsNotHdlc == <<varsDcd, varsDlq, varsXmit, varsBoot>>

varsNotDcd == <<varsHdlc, varsDlq, varsXmit, varsBoot>>

varsNotDlq == <<varsHdlc, varsDcd, varsXmit, varsBoot>>

varsNotXmit == <<varsHdlc, varsDlq, varsBoot>>

varsNotBoot == <<varsHdlc, varsDcd, varsDlq, varsXmit>>

vars == <<varsHdlc, varsDcd, varsDlq, varsXmit, varsBoot>>

(***************************************************************************)
(* hdlc_send.c.  A channel's serializer state is the record                *)
(* [output, stuff, nsent, line, sent].                                     *)
(***************************************************************************)

SendState(c) ==
    [output |-> output[c], stuff |-> stuff[c], nsent |-> number_of_bits_sent[c],
     line |-> line[c], sent |-> sent[c]]

\* NRZI: a 0 data bit inverts the line, a 1 leaves it; the bit goes to the
\* tone generator and is counted.  (And what it would be if the data bit
\* were the level of the line.)
SendBitLevel(s, b) ==
    [s EXCEPT !.output = b,
              !.line = Append(s.line, b),
              !.sent = Append(s.sent, b),
              !.nsent = s.nsent + 1]

send_bit_nrzi(s, b) ==
    LET out == IF b = 0 THEN 1 - s.output ELSE s.output
    IN  [s EXCEPT !.output = out,
                  !.line = Append(s.line, out),
                  !.sent = Append(s.sent, b),
                  !.nsent = s.nsent + 1]

RECURSIVE ControlBits(_, _, _)
ControlBits(s, x, i) ==
    IF i = 8 THEN s
    ELSE ControlBits(send_bit_nrzi(s, x % 2), x \div 2, i + 1)

\* Eight bits, least significant first, no stuffing; the counter is reset.
send_control_nrzi(s, x) ==
    [ControlBits(s, x, 0) EXCEPT !.stuff = 0]

\* A serializer that resets the counter but inserts no zero.
DataBitMissingStuff(s, b) ==
    LET s1 == send_bit_nrzi(s, b)
    IN  IF b = 1 THEN [s1 EXCEPT !.stuff = (s.stuff + 1) % 5]
        ELSE [s1 EXCEPT !.stuff = 0]

\* A serializer that inserts the zero after the sixth 1.
DataBitStuffAtSix(s, b) ==
    LET s1 == send_bit_nrzi(s, b)
    IN  IF b = 1
        THEN IF s.stuff + 1 = 6
             THEN [send_bit_nrzi(s1, 0) EXCEPT !.stuff = 0]
             ELSE [s1 EXCEPT !.stuff = s.stuff + 1]
        ELSE [s1 EXCEPT !.stuff = 0]

\* A serializer that does not count the zero it inserts.
DataBitStuffUncounted(s, b) ==
    LET s1 == send_bit_nrzi(s, b)
    IN  IF b = 1
        THEN IF s.stuff + 1 = 5
             THEN [send_bit_nrzi(s1, 0) EXCEPT !.stuff = 0, !.nsent = s1.nsent]
             ELSE [s1 EXCEPT !.stuff = s.stuff + 1]
        ELSE [s1 EXCEPT !.stuff = 0]

\* One data bit of send_data_nrzi: after the fifth consecutive 1 a 0 is
\* inserted.
DataBit(s, b) ==
    LET s1 == send_bit_nrzi(s, b)
    IN  IF b = 1
        THEN IF s.stuff + 1 = 5
             THEN [send_bit_nrzi(s1, 0) EXCEPT !.stuff = 0]
             ELSE [s1 EXCEPT !.stuff = s.stuff + 1]
        ELSE [s1 EXCEPT !.stuff = 0]

RECURSIVE DataBits(_, _, _)
DataBits(s, x, i) ==
    IF i = 8 THEN s
    ELSE DataBits(DataBit(s, x % 2), x \div 2, i + 1)

send_data_nrzi(s, x) == DataBits(s, x, 0)

\* for (j = 0; j < nbytes; j++) send_control_nrzi(chan, 0x7e), and what it
\* would be with send_data_nrzi
RECURSIVE FlagRunStuffed(_, _)
FlagRunStuffed(s, nbytes) ==
    IF nbytes <= 0 THEN s
    ELSE FlagRunStuffed([send_data_nrzi(s, 126) EXCEPT !.stuff = 0], nbytes - 1)

RECURSIVE FlagRun(_, _)
FlagRun(s, nbytes) ==
    IF nbytes <= 0 THEN s
    ELSE FlagRun(send_control_nrzi(s, 126), nbytes - 1)

\* The two FCS octets, low octet first; complemented when bad_fcs is set.
SendFcsOctets(s, fcs, bad) ==
    LET v == IF bad = 1 THEN 65535 - fcs ELSE fcs
    IN  send_data_nrzi(send_data_nrzi(s, v % 256), (v \div 256) % 256)

\* (first what it would be with one line state for all channels)
StoreOneOutput(c, s) ==
    /\ output' = [ch \in Chans |-> s.output]
    /\ stuff' = [stuff EXCEPT ![c] = s.stuff]
    /\ number_of_bits_sent' = [number_of_bits_sent EXCEPT ![c] = s.nsent]
    /\ line' = [line EXCEPT ![c] = s.line]
    /\ sent' = [sent EXCEPT ![c] = s.sent]

Store(c, s) ==
    /\ output' = [output EXCEPT ![c] = s.output]
    /\ stuff' = [stuff EXCEPT ![c] = s.stuff]
    /\ number_of_bits_sent' = [number_of_bits_sent EXCEPT ![c] = s.nsent]
    /\ line' = [line EXCEPT ![c] = s.line]
    /\ sent' = [sent EXCEPT ![c] = s.sent]

(***************************************************************************)
(* ax25_only_hdlc_send_frame(txchan, fbuf, flen, bad_fcs), one action per  *)
(* call of send_control_nrzi / send_data_nrzi.  The receiving station      *)
(* demodulates in real time: the serializer goes on when the bits on the   *)
(* line have been taken.                                                   *)
(***************************************************************************)

LineTaken == rxpos = Len(line[txchan])

\* fx25_send_frame has not been called
NotCalled == [called |-> FALSE, n |-> 0]

\* if (n > 0) return (n), and what it would be with n >= 0
Fx25SentOrNothing(n) == n >= 0

Fx25Sent(n) == n > 0

\* layer2_send_frame up to the call of ax25_only_hdlc_send_frame: with
\* LAYER2_FX25, fx25_send_frame (fx25_send.c, which gives its own bits to
\* the tone generator and returns their number, or a number not above 0
\* when it cannot encode the frame) and the return of n > 0.
L2SendFrame ==
    /\ spc = "layer2"
    /\ IF layer2_xmit[txchan] = "LAYER2_FX25"
       THEN \E n \in Fx25Results :
              /\ fx25' = [called |-> TRUE, n |-> n]
              /\ IF Fx25Sent(n)
                 THEN spc' = "done" /\ sret' = n
                 ELSE spc' = "start" /\ sret' = sret
       ELSE spc' = "start" /\ UNCHANGED <<fx25, sret>>
    /\ UNCHANGED <<output, stuff, number_of_bits_sent, line, sent, layer2_xmit, varsFlags,
                   txchan, fbuf, bad_fcs, sj, varsRec, varsNotHdlc>>

SendStartFlag ==
    /\ spc = "start"
    /\ LineTaken
    /\ Store(txchan, send_control_nrzi([SendState(txchan) EXCEPT !.nsent = 0], 126))
    /\ spc' = "data"
    /\ sj' = 0
    /\ UNCHANGED <<varsL2, varsFlags, txchan, fbuf, bad_fcs, sret, varsRec, varsNotHdlc>>

SendOctet ==
    /\ spc = "data"
    /\ sj < Len(fbuf)
    /\ LineTaken
    /\ Store(txchan, send_data_nrzi(SendState(txchan), fbuf[sj + 1]))
    /\ sj' = sj + 1
    /\ UNCHANGED <<varsL2, varsFlags, txchan, fbuf, bad_fcs, spc, sret, varsRec, varsNotHdlc>>

SendFcs ==
    /\ spc = "data"
    /\ sj = Len(fbuf)
    /\ LineTaken
    /\ Store(txchan, SendFcsOctets(SendState(txchan), fcs_calc(fbuf), bad_fcs))
    /\ spc' = "end"
    /\ UNCHANGED <<varsL2, varsFlags, txchan, fbuf, bad_fcs, sj, sret, varsRec, varsNotHdlc>>

SendEndFlag ==
    /\ spc = "end"
    /\ LineTaken
    /\ LET s == send_control_nrzi(SendState(txchan), 126)
       IN  /\ Store(txchan, s)
           /\ sret' = s.nsent
    /\ spc' = "done"
    /\ UNCHANGED <<varsL2, varsFlags, txchan, fbuf, bad_fcs, sj, varsRec, varsNotHdlc>>

\* The flag octets of a preamble or postamble in the runs modelled.
MaxFlagOctets == 2

\* layer2_preamble_postamble(txchan, nbytes, finish, ...), before the frame
\* (spc "pre") or after it (spc "done"); audio_flush is counted.
SendFlags ==
    /\ spc \in {"pre", "done"}
    /\ LineTaken
    /\ \E nbytes \in 0 .. MaxFlagOctets, finish \in {0, 1} :
          LET s == FlagRun([SendState(txchan) EXCEPT !.nsent = 0], nbytes)
          IN  /\ Store(txchan, s)
              /\ sret' = s.nsent
              /\ flagrun' = [nbytes |-> nbytes, finish |-> finish,
                             flushed |-> flagrun.flushed + (IF finish # 0 THEN 1 ELSE 0)]
    /\ spc' = IF spc = "pre" THEN "start" ELSE "post"
    /\ UNCHANGED <<varsL2, txchan, fbuf, bad_fcs, sj, varsRec, varsNotHdlc>>

(***************************************************************************)
(* hdlc_rec.c: hdlc_rec_bit for one decoder state h and one raw bit.       *)
(* recv_ber is 0 (no error injection); flag4_det, lfsr and the EAS fields  *)
(* are written or unused only and left out; frame_buf holds the frame_len  *)
(* octets stored so far.                                                   *)
(***************************************************************************)

\* rrbb.c (bit array of raw received bits): append, chop-last-8, length, clear.
rrbb_append_bit(b, raw) == Append(b, raw)

\* (first what it would be if nothing were removed)
rrbb_chop0(b) == b

rrbb_chop8(b) == IF Len(b) >= 8 THEN SubSeq(b, 1, Len(b) - 8) ELSE b

rrbb_get_len(b) == Len(b)

\* The state right after a flag has been detected on a line at level lvl.
HAfterFlag(lvl) ==
    [prev_raw |-> lvl, pat_det |-> 126, oacc |-> 0, olen |-> 0,
     frame_buf |-> <<>>, frame_len |-> 0, rrbb |-> <<lvl>>]

\* The last branch: accumulate bits into octets, octets into the frame
\* buffer.  (First what it would be without the test of frame_len.)
AccumulateUnchecked(h, dbit) ==
    IF h.olen >= 0
    THEN LET oacc == ShiftIn8(h.oacc, dbit)
         IN  IF h.olen + 1 = 8
             THEN [h EXCEPT !.oacc = oacc, !.olen = 0,
                            !.frame_buf = Append(h.frame_buf, oacc),
                            !.frame_len = h.frame_len + 1]
             ELSE [h EXCEPT !.oacc = oacc, !.olen = h.olen + 1]
    ELSE h

\* (and what it would be if it took up octets again after an abort)
AccumulateAfterAbort(h, dbit) ==
    AccumulateUnchecked([h EXCEPT !.olen = IF h.olen < 0 THEN 0 ELSE h.olen], dbit)

Accumulate(h, dbit) ==
    IF h.olen >= 0
    THEN LET oacc == ShiftIn8(h.oacc, dbit)
         IN  IF h.olen + 1 = 8
             THEN IF h.frame_len < MAX_FRAME_LEN
                  THEN [h EXCEPT !.oacc = oacc, !.olen = 0,
                                 !.frame_buf = Append(h.frame_buf, oacc),
                                 !.frame_len = h.frame_len + 1]
                  ELSE [h EXCEPT !.oacc = oacc, !.olen = 0]
             ELSE [h EXCEPT !.oacc = oacc, !.olen = h.olen + 1]
    ELSE h

\* A deframer that keeps the inserted zeros as data.
StuffedZeroKept(pat_det) == FALSE

\* 0111110xx: five 1 bits followed by a 0, the 0 was inserted by the sender.
StuffedZero(pat_det) == pat_det - (pat_det % 4) = 124

\* if (rrbb_get_len(H->rrbb) >= MIN_FRAME_LEN * 8), and what it would be
\* with one octet less
EnoughOneLess(b) == rrbb_get_len(b) >= (MIN_FRAME_LEN - 1) * 8

Enough(b) == rrbb_get_len(b) >= MIN_FRAME_LEN * 8

\* The result: the new decoder state, and whether (and with what raw bits)
\* hdlc_rec2_block was called.
hdlc_rec_bit(h, raw) ==
    LET dbit == IF raw = h.prev_raw THEN 1 ELSE 0
        h1 == [h EXCEPT !.prev_raw = raw,
                        !.pat_det = ShiftIn8(h.pat_det, dbit),
                        !.rrbb = rrbb_append_bit(h.rrbb, raw)]
    IN  IF h1.pat_det = 126
        THEN LET chopped == rrbb_chop8(h1.rrbb)
                 enough == Enough(chopped)
             IN  [H |-> [h1 EXCEPT !.olen = 0, !.frame_len = 0, !.frame_buf = <<>>,
                                   !.rrbb = rrbb_append_bit(<<>>, h1.prev_raw)],
                  handoff |-> enough,
                  rrbb |-> IF enough THEN chopped ELSE <<>>]
        ELSE IF h1.pat_det = 254
        THEN [H |-> [h1 EXCEPT !.olen = -1, !.frame_len = 0, !.frame_buf = <<>>,
                               !.rrbb = <<>>],
              handoff |-> FALSE, rrbb |-> <<>>]
        ELSE IF StuffedZero(h1.pat_det)
        THEN [H |-> h1, handoff |-> FALSE, rrbb |-> <<>>]
        ELSE [H |-> Accumulate(h1, dbit), handoff |-> FALSE, rrbb |-> <<>>]

\* One call hdlc_rec_bit(txchan, 0, 0, raw, 0) and the history kept of it:
\* the data bit it derived (the bit it shifted into pat_det), the candidates
\* handed to hdlc_rec2_block (their raw bits, the octets the decoder had
\* accumulated for them, and whether the span saw an abort).
Demod(raw) ==
    LET r == hdlc_rec_bit(H, raw)
    IN  /\ H' = r.H
        /\ dbits' = Append(dbits, r.H.pat_det \div 128)
        /\ UNCHANGED levels
        /\ blocks' = IF r.handoff
                     THEN Append(blocks, [rrbb |-> r.rrbb, frame |-> H.frame_buf,
                                          olen |-> H.olen, aborted |-> span.aborted])
                     ELSE blocks
        /\ span' = IF r.H.pat_det = 126 THEN [open |-> TRUE, aborted |-> FALSE, bits |-> 0]
                   ELSE IF r.H.pat_det = 254
                        THEN [span EXCEPT !.aborted = span.open, !.bits = 0]
                   ELSE [span EXCEPT !.bits = span.bits + 1]

\* The demodulator delivers the next bit of the line.
RecBit ==
    /\ rxpos < Len(line[txchan])
    /\ burst <= 0
    /\ Demod(line[txchan][rxpos + 1])
    /\ rxpos' = rxpos + 1
    /\ UNCHANGED <<varsSend, burst, varsNotHdlc>>

\* Loss of signal: the received level stays what it was for n bit times, once.
HoldLine ==
    /\ burst # 0
    /\ spc # "start"
    /\ \E n \in {7, 8} :
          burst' = IF burst = -1 THEN n - 1 ELSE burst - 1
    /\ Demod(H.prev_raw)
    /\ UNCHANGED <<varsSend, rxpos, varsNotHdlc>>

\* The demodulator loses a bit time of the line between the flags (its bit
\* clock slips), once.
SlipBit ==
    /\ burst = -1
    /\ spc \in {"data", "end"}
    /\ rxpos >= 8
    /\ rxpos < Len(line[txchan])
    /\ rxpos' = rxpos + 1
    /\ burst' = 0
    /\ UNCHANGED <<varsSend, H, blocks, span, dbits, levels, varsNotHdlc>>

(***************************************************************************)
(* hdlc_rec.c, data carrier detect.  A word of composite_dcd is a number,  *)
(* bit k of it has the weight 2^k.                                         *)
(***************************************************************************)

\* The slicers the demodulators of the configuration run (num_slicers).
NumSlicers == 2

Slicers == 0 .. (NumSlicers - 1)

\* The values of num_subchan of a radio channel in the configurations modelled.
NumSubchanChoices == {1, 2}

Pow2(k) == 2 ^ k

TestBit(m, k) == (m \div Pow2(k)) % 2

\* m | (1 << k)
SetBit(m, k) == IF TestBit(m, k) = 1 THEN m ELSE m + Pow2(k)

\* m & ~(1 << k), and what it would be if it cleared the word
ClearWord(m, k) == 0

ClearBit(m, k) == IF TestBit(m, k) = 1 THEN m - Pow2(k) ELSE m

\* hdlc_rec_data_detect_any on the matrix cd
DetectAny(cd, chan) ==
    IF \E sc \in 0 .. (num_subchan[chan] - 1) : cd[chan][sc] # 0 THEN 1
    ELSE IF txinh[chan] = 1 THEN 1
    ELSE 0

hdlc_rec_data_detect_any(chan) == DetectAny(composite_dcd, chan)

\* The callers of dcd_change: the demodulator of a sub-channel and slicer of
\* a radio channel, and the DTMF decoder of the channel, which reports as
\* sub-channel MAX_SUBCHANS, slicer 0.
DcdCallers ==
    {t \in RadioChans \X (0 .. MAX_SUBCHANS) \X Slicers :
        \/ t[2] < num_subchan[t[1]]
        \/ t[2] = MAX_SUBCHANS /\ t[3] = 0}

dcd_change(chan, subchan, slice, state) ==
    /\ chan >= 0 /\ chan < MAX_CHANS
    /\ subchan >= 0 /\ subchan <= MAX_SUBCHANS
    /\ slice >= 0 /\ slice < MAX_SLICERS
    /\ state \in {0, 1}
    /\ LET old == hdlc_rec_data_detect_any(chan)
           word == IF state = 1 THEN SetBit(composite_dcd[chan][subchan], slice)
                   ELSE ClearBit(composite_dcd[chan][subchan], slice)
           cd == [composite_dcd EXCEPT ![chan][subchan] = word]
           new == DetectAny(cd, chan)
       IN  /\ composite_dcd' = cd
           /\ dcd_out' = IF new # old THEN [dcd_out EXCEPT ![chan] = new] ELSE dcd_out
    /\ dcd_last' = IF state = 1 THEN dcd_last \cup {<<chan, subchan, slice>>}
                   ELSE dcd_last \ {<<chan, subchan, slice>>}
    /\ UNCHANGED <<num_subchan, txinh>>

DcdChange ==
    /\ \E t \in DcdCallers : \E state \in {0, 1} : dcd_change(t[1], t[2], t[3], state)
    /\ UNCHANGED varsNotDcd

\* The transmit inhibit input of a channel changes.
TxInhChange ==
    /\ \E chan \in RadioChans : txinh' = [txinh EXCEPT ![chan] = 1 - txinh[chan]]
    /\ UNCHANGED <<num_subchan, composite_dcd, dcd_out, dcd_last>>
    /\ UNCHANGED varsNotDcd

\* hdlc_rec_init: the matrix is cleared, num_subchan is copied from the
\* configuration for the radio channels.
InitDcdWith(ns) ==
    /\ num_subchan = [c \in Chans |-> IF c \in RadioChans THEN ns[c] ELSE 0]
    /\ composite_dcd = [c \in Chans |-> [sc \in 0 .. MAX_SUBCHANS |-> 0]]
    /\ txinh = [c \in Chans |-> 0]
    /\ dcd_out = [c \in Chans |-> 0]
    /\ dcd_last = {}

\* Channel 0 with one or two sub-channels, every other radio channel with one.
InitDcd ==
    \E n0 \in NumSubchanChoices : InitDcdWith([c \in RadioChans |-> IF c = 0 THEN n0 ELSE 1])

InitDcdOne == InitDcdWith([c \in RadioChans |-> 1])

(***************************************************************************)
(* dlq.c and recv.c.  The receive thread of every defined audio device     *)
(* calls dlq_rec_frame; the main thread runs recv_process.  A step is one  *)
(* access to the shared state.  A mutex is TRUE while it is held.          *)
(***************************************************************************)

\* The audio devices with adev[a].defined: recv_init starts one thread each.
AudioDevs == {0, 1}

\* The items the receive threads allocate in a run.
MaxItems == 3

\* The queue length above which append_to_queue complains.
DLQ_OUT_OF_CONTROL == 10

\* pthread_mutex_lock can proceed, and what it would be if it never waited
CanLockAlways(m) == TRUE

CanLock(m) == m = FALSE

\* The items linked from p on, in order.
RECURSIVE ListFrom(_, _)
ListFrom(p, fuel) ==
    IF p = 0 \/ fuel = 0 THEN <<>>
    ELSE <<p>> \o ListFrom(heap[p].nextp, fuel - 1)

Queue == ListFrom(queue_head, Len(heap))

\* dlq_rec_frame with pp # NULL: calloc, and the load of s_new_count++
P_new(a) ==
    /\ ppc[a] = "idle"
    /\ Len(heap) < item_limit
    /\ heap' = Append(heap, [nextp |-> 0, chan |-> 2 * a])
    /\ pnew' = [pnew EXCEPT ![a] = Len(heap) + 1]
    /\ ptmp' = [ptmp EXCEPT ![a] = s_new_count]
    /\ ppc' = [ppc EXCEPT ![a] = "count"]
    /\ UNCHANGED <<queue_head, dlq_mutex, wake_up_mutex, recv_thread_is_waiting,
                   cond_signalled, s_new_count, complained, item_limit, plast, queue_length, warned>>
    /\ UNCHANGED <<varsCons, varsDlqHist, varsDlqFree, varsNotDlq>>

\* the store of s_new_count++, the fields of the item, the call of append_to_queue
P_count(a) ==
    /\ ppc[a] = "count"
    /\ s_new_count' = ptmp[a] + 1
    /\ ppc' = [ppc EXCEPT ![a] = "lock"]
    /\ UNCHANGED <<heap, queue_head, dlq_mutex, wake_up_mutex, recv_thread_is_waiting,
                   cond_signalled, complained, item_limit, pnew, plast, ptmp, queue_length, warned>>
    /\ UNCHANGED <<varsCons, varsDlqHist, varsDlqFree, varsNotDlq>>

\* append_to_queue: pnew->nextp = NULL; pthread_mutex_lock (&dlq_mutex)
P_lock(a) ==
    /\ ppc[a] = "lock"
    /\ CanLock(dlq_mutex)
    /\ dlq_mutex' = TRUE
    /\ heap' = [heap EXCEPT ![pnew[a]].nextp = 0]
    /\ append_order' = Append(append_order, pnew[a])
    /\ ppc' = [ppc EXCEPT ![a] = "find"]
    /\ UNCHANGED <<queue_head, wake_up_mutex, recv_thread_is_waiting, cond_signalled,
                   s_new_count, complained, item_limit, pnew, plast, ptmp, queue_length, warned, removed, dispatched>>
    /\ UNCHANGED <<varsCons, varsDlqFree, varsNotDlq>>

\* the test of queue_head and the walk to the last item
P_find(a) ==
    /\ ppc[a] = "find"
    /\ LET q == Queue
       IN  /\ plast' = [plast EXCEPT ![a] = IF q = <<>> THEN 0 ELSE q[Len(q)]]
           /\ queue_length' = [queue_length EXCEPT ![a] = Len(q) + 1]
    /\ ppc' = [ppc EXCEPT ![a] = "link"]
    /\ UNCHANGED <<varsDlqShared, pnew, ptmp, warned, varsCons, varsDlqHist, varsDlqFree,
                   varsNotDlq>>

\* queue_head = pnew, or plast->nextp = pnew
P_link(a) ==
    /\ ppc[a] = "link"
    /\ IF plast[a] = 0
       THEN queue_head' = pnew[a] /\ heap' = heap
       ELSE heap' = [heap EXCEPT ![plast[a]].nextp = pnew[a]] /\ queue_head' = queue_head
    /\ ppc' = [ppc EXCEPT ![a] = "unlock"]
    /\ UNCHANGED <<dlq_mutex, wake_up_mutex, recv_thread_is_waiting, cond_signalled,
                   s_new_count, complained, item_limit, pnew, plast, ptmp, queue_length, warned>>
    /\ UNCHANGED <<varsCons, varsDlqHist, varsDlqFree, varsNotDlq>>

\* pthread_mutex_unlock (&dlq_mutex)
P_unlock(a) ==
    /\ ppc[a] = "unlock"
    /\ dlq_mutex' = FALSE
    /\ ppc' = [ppc EXCEPT ![a] = "notify"]
    /\ UNCHANGED <<heap, queue_head, wake_up_mutex, recv_thread_is_waiting, cond_signalled,
                   s_new_count, complained, item_limit, pnew, plast, ptmp, queue_length, warned>>
    /\ UNCHANGED <<varsCons, varsDlqHist, varsDlqFree, varsNotDlq>>

\* if (queue_length > 10), and what it would be with queue_length >= 10
OutOfControlAt(n) == n >= DLQ_OUT_OF_CONTROL

OutOfControl(n) == n > DLQ_OUT_OF_CONTROL

\* the complaint about the queue length, and the test of recv_thread_is_waiting
P_notify(a) ==
    /\ ppc[a] = "notify"
    /\ complained' = (complained \/ OutOfControl(queue_length[a]))
    /\ warned' = [warned EXCEPT ![a] = OutOfControl(queue_length[a])]
    /\ ppc' = [ppc EXCEPT ![a] = IF recv_thread_is_waiting = 1 THEN "signal" ELSE "idle"]
    /\ UNCHANGED <<heap, queue_head, dlq_mutex, wake_up_mutex, recv_thread_is_waiting,
                   cond_signalled, s_new_count, item_limit, pnew, plast, ptmp, queue_length>>
    /\ UNCHANGED <<varsCons, varsDlqHist, varsDlqFree, varsNotDlq>>

\* wake_up_mutex locked, pthread_cond_signal, wake_up_mutex unlocked
P_signal(a) ==
    /\ ppc[a] = "signal"
    /\ CanLock(wake_up_mutex)
    /\ cond_signalled' = (cond_signalled \/ cpc = "blocked")
    /\ ppc' = [ppc EXCEPT ![a] = "idle"]
    /\ UNCHANGED <<heap, queue_head, dlq_mutex, wake_up_mutex, recv_thread_is_waiting,
                   s_new_count, complained, item_limit, pnew, plast, ptmp, queue_length, warned>>
    /\ UNCHANGED <<varsCons, varsDlqHist, varsDlqFree, varsNotDlq>>

\* recv_process calls dlq_wait_while_empty: the test of queue_head
C_check ==
    /\ cpc = "wait_check"
    /\ IF queue_head = 0
       THEN cpc' = "wu_lock" /\ timed_out' = timed_out
       ELSE cpc' = "rm_lock" /\ timed_out' = 0
    /\ UNCHANGED <<varsDlqShared, varsProd, result, varsDlqHist, varsDlqFree, varsNotDlq>>

\* pthread_mutex_lock (&wake_up_mutex); recv_thread_is_waiting = 1
C_wu_lock ==
    /\ cpc = "wu_lock"
    /\ CanLock(wake_up_mutex)
    /\ wake_up_mutex' = TRUE
    /\ recv_thread_is_waiting' = 1
    /\ cpc' = "cond_wait"
    /\ UNCHANGED <<heap, queue_head, dlq_mutex, cond_signalled, s_new_count, complained, item_limit>>
    /\ UNCHANGED <<varsProd, result, timed_out, varsDlqHist, varsDlqFree, varsNotDlq>>

\* pthread_cond_timedwait releases wake_up_mutex and blocks
C_cond_wait ==
    /\ cpc = "cond_wait"
    /\ wake_up_mutex' = FALSE
    /\ cond_signalled' = FALSE
    /\ cpc' = "blocked"
    /\ UNCHANGED <<heap, queue_head, dlq_mutex, recv_thread_is_waiting, s_new_count, complained, item_limit>>
    /\ UNCHANGED <<varsProd, result, timed_out, varsDlqHist, varsDlqFree, varsNotDlq>>

\* pthread_cond_timedwait returns with wake_up_mutex held: ETIMEDOUT, or 0 on
\* a signal or a spurious wake-up; recv_thread_is_waiting = 0
C_wake ==
    /\ cpc = "blocked"
    /\ CanLock(wake_up_mutex)
    /\ wake_up_mutex' = TRUE
    /\ \E t \in {0, 1} : timed_out' = t
    /\ recv_thread_is_waiting' = 0
    /\ cpc' = "wu_unlock"
    /\ UNCHANGED <<heap, queue_head, dlq_mutex, cond_signalled, s_new_count, complained, item_limit>>
    /\ UNCHANGED <<varsProd, result, varsDlqHist, varsDlqFree, varsNotDlq>>

\* dlq_wait_while_empty (0.0): pthread_cond_wait returns with wake_up_mutex
\* held once the condition has been signalled (a wake-up without a signal
\* is permitted and not promised, and is left out); recv_thread_is_waiting = 0
C_wake_untimed ==
    /\ cpc = "blocked"
    /\ cond_signalled
    /\ CanLock(wake_up_mutex)
    /\ wake_up_mutex' = TRUE
    /\ timed_out' = 0
    /\ recv_thread_is_waiting' = 0
    /\ cpc' = "wu_unlock"
    /\ UNCHANGED <<heap, queue_head, dlq_mutex, cond_signalled, s_new_count, complained, item_limit>>
    /\ UNCHANGED <<varsProd, result, varsDlqHist, varsDlqFree, varsNotDlq>>

\* pthread_mutex_unlock (&wake_up_mutex); recv_process continues when timed out
C_wu_unlock ==
    /\ cpc = "wu_unlock"
    /\ wake_up_mutex' = FALSE
    /\ cpc' = IF timed_out = 1 THEN "wait_check" ELSE "rm_lock"
    /\ UNCHANGED <<heap, queue_head, dlq_mutex, recv_thread_is_waiting, cond_signalled,
                   s_new_count, complained, item_limit>>
    /\ UNCHANGED <<varsProd, result, timed_out, varsDlqHist, varsDlqFree, varsNotDlq>>

\* dlq_remove: result = NULL; pthread_mutex_lock (&dlq_mutex)
C_rm_lock ==
    /\ cpc = "rm_lock"
    /\ CanLock(dlq_mutex)
    /\ dlq_mutex' = TRUE
    /\ result' = 0
    /\ cpc' = "rm_read"
    /\ UNCHANGED <<heap, queue_head, wake_up_mutex, recv_thread_is_waiting, cond_signalled,
                   s_new_count, complained, item_limit>>
    /\ UNCHANGED <<varsProd, timed_out, varsDlqHist, varsDlqFree, varsNotDlq>>

\* if (queue_head != NULL) result = queue_head
C_rm_read ==
    /\ cpc = "rm_read"
    /\ result' = queue_head
    /\ cpc' = IF queue_head # 0 THEN "rm_write" ELSE "rm_unlock"
    /\ UNCHANGED <<varsDlqShared, varsProd, timed_out, varsDlqHist, varsDlqFree, varsNotDlq>>

\* (first what it would be if the head were not moved to the next item but
\* the queue emptied)
C_rm_write_all ==
    /\ cpc = "rm_write"
    /\ queue_head' = 0
    /\ cpc' = "rm_unlock"
    /\ UNCHANGED <<heap, dlq_mutex, wake_up_mutex, recv_thread_is_waiting, cond_signalled,
                   s_new_count, complained, item_limit>>
    /\ UNCHANGED <<varsProd, result, timed_out, varsDlqHist, varsDlqFree, varsNotDlq>>

\* queue_head = queue_head->nextp
C_rm_write ==
    /\ cpc = "rm_write"
    /\ queue_head' = heap[result].nextp
    /\ cpc' = "rm_unlock"
    /\ UNCHANGED <<heap, dlq_mutex, wake_up_mutex, recv_thread_is_waiting, cond_signalled,
                   s_new_count, complained, item_limit>>
    /\ UNCHANGED <<varsProd, result, timed_out, varsDlqHist, varsDlqFree, varsNotDlq>>

\* pthread_mutex_unlock (&dlq_mutex); return (result)
C_rm_unlock ==
    /\ cpc = "rm_unlock"
    /\ dlq_mutex' = FALSE
    /\ removed' = IF result # 0 THEN Append(removed, result) ELSE removed
    /\ cpc' = IF result # 0 THEN "process" ELSE "wait_check"
    /\ UNCHANGED <<heap, queue_head, wake_up_mutex, recv_thread_is_waiting, cond_signalled,
                   s_new_count, complained, item_limit>>
    /\ UNCHANGED <<varsProd, result, timed_out, append_order, dispatched, varsDlqFree, varsNotDlq>>

\* app_process_rec_packet (pitem->chan, ...), which frees nothing; recv_process
\* goes round its loop without a call of dlq_delete, pitem is overwritten
C_process ==
    /\ cpc = "process"
    /\ dispatched' = Append(dispatched, result)
    /\ result' = 0
    /\ cpc' = "wait_check"
    /\ UNCHANGED <<varsDlqShared, varsProd, timed_out, append_order, removed, varsDlqFree,
                   varsNotDlq>>

\* dlq_init, no receive thread inside dlq_rec_frame, recv_process at the top
\* of its loop.
InitDlqWith(n0, limit) ==
    /\ heap = [i \in 1 .. n0 |-> [nextp |-> IF i < n0 THEN i + 1 ELSE 0, chan |-> 0]]
    /\ queue_head = (IF n0 > 0 THEN 1 ELSE 0)
    /\ item_limit = limit
    /\ warned = [a \in AudioDevs |-> FALSE]
    /\ dlq_mutex = FALSE
    /\ wake_up_mutex = FALSE
    /\ recv_thread_is_waiting = 0
    /\ cond_signalled = FALSE
    /\ s_new_count = n0
    /\ s_delete_count = 0
    /\ complained = FALSE
    /\ ppc = [a \in AudioDevs |-> "idle"]
    /\ pnew = [a \in AudioDevs |-> 0]
    /\ plast = [a \in AudioDevs |-> 0]
    /\ ptmp = [a \in AudioDevs |-> 0]
    /\ queue_length = [a \in AudioDevs |-> 0]
    /\ cpc = "wait_check"
    /\ result = 0
    /\ timed_out = 0
    /\ append_order = [i \in 1 .. n0 |-> i]
    /\ removed = <<>>
    /\ dispatched = <<>>

InitDlq == InitDlqWith(0, MaxItems)

(***************************************************************************)
(* xmit.c: one xmit_thread per radio channel, on the send queues of tq.c.  *)
(* A frame is a packet object: its number, what ax25_is_aprs says of it,   *)
(* whether it has a first digipeater with the has-been-repeated bit, and   *)
(* what ax25_is_null_frame says of it.  A step of a thread is one access   *)
(* to the shared state, a sleep, or the work between two of them.          *)
(***************************************************************************)

TQ_PRIO_0_HI == 0

TQ_PRIO_1_LO == 1

Prios == {TQ_PRIO_0_HI, TQ_PRIO_1_LO}

WAIT_CHECK_EVERY_MS == 10

\* The polls of a wait before it is given up (6000 in the program).
MaxWaitPolls == 2

\* 60 * 1000 in the program
WAIT_TIMEOUT_MS == MaxWaitPolls * WAIT_CHECK_EVERY_MS

\* The packet objects the applications make in a run.
MaxFrames == 2

\* rand() & 0xff: every value of eight bits, and the values around persist
\* 63 that the runs with many threads and frames draw from
RandAll == 0 .. 255

RandVals == {0, 63, 64, 255}

\* int r of the random wait before rand() is assigned to it
NoDraw == -1

\* The NULL packet pointer.
NoFrame == [id |-> 0, aprs |-> FALSE, rep1_h |-> FALSE, null |-> FALSE]

\* The frames of a run: digipeated APRS, new APRS, a digipeated frame that
\* is not APRS, and the null frame of a seize request.
AprsDigi == [aprs |-> TRUE, rep1_h |-> TRUE, null |-> FALSE]

AprsNew == [aprs |-> TRUE, rep1_h |-> FALSE, null |-> FALSE]

OtherDigi == [aprs |-> FALSE, rep1_h |-> TRUE, null |-> FALSE]

NullFrame == [aprs |-> FALSE, rep1_h |-> FALSE, null |-> TRUE]

FrameShapes == {AprsDigi, AprsNew, OtherDigi, NullFrame}

Ids(q) == [i \in 1 .. Len(q) |-> q[i].id]

\* frame_flavor, and what it would be if it did not look at the digipeaters
FlavorWithoutH(pp) == IF pp.aprs THEN "FLAVOR_APRS_NEW" ELSE "FLAVOR_OTHER"

frame_flavor(pp) ==
    IF pp.aprs
    THEN IF pp.rep1_h THEN "FLAVOR_APRS_DIGI" ELSE "FLAVOR_APRS_NEW"
    ELSE "FLAVOR_OTHER"

\* The number of bits send_one_frame returns: none for the null frame, else
\* what layer2_send_frame sent, at least two flags and a shortest frame.
send_one_frame(pp) == IF pp.null THEN 0 ELSE 8 * (MIN_FRAME_LEN + 2)

tq_peek(chan, prio) == IF tq[chan][prio] = <<>> THEN NoFrame ELSE Head(tq[chan][prio])

\* the queues after tq_remove(chan, prio)
TqRemoved(chan, prio) ==
    [tq EXCEPT ![chan][prio] = IF @ = <<>> THEN @ ELSE Tail(@)]

\* the switch of xmit_thread on frame_flavor(pp): the max_bundle given to
\* xmit_ax25_frames.  (And what it would be if no frame were bundled.)
MaxBundleOne(flavor) == 1

MaxBundle(flavor) == IF flavor = "FLAVOR_APRS_DIGI" THEN 1 ELSE 256

\* if (pp != NULL) after the high priority queue was asked: the frame is
\* of high priority; and what it would be if the answer were ignored
FromHiNever(f) == FALSE

FromHi(f) == f # NoFrame

\* dw_mutex_try_lock returns true, and what it would be if it always did
TryLockAlways(m) == TRUE

dw_mutex_try_lock(m) == m = FALSE

XtIdle ==
    [pc |-> "idle", n |-> 0, ok |-> 0, pp |-> NoFrame, prio |-> TQ_PRIO_1_LO,
     max_bundle |-> 0, numframe |-> 0, done |-> 0, exam |-> <<>>, num_bits |-> 0,
     r |-> NoDraw]

BITS_TO_MS(b, ch) == (b * 1000) \div xmit_bits_per_sec[ch]

MS_TO_BITS(ms, ch) == (ms * xmit_bits_per_sec[ch]) \div 1000

\* hdlc_send.c: number_of_bits_sent[chan] = 0; nbytes times
\* send_control_nrzi(chan, 0x7e), each of them eight send_bit_nrzi that count
\* one bit; return (number_of_bits_sent[chan]).  (And what it would be if
\* the octets were counted.)
FlagOctetsCounted(chan, nbytes) == IF nbytes <= 0 THEN 0 ELSE nbytes

layer2_preamble_postamble(chan, nbytes) == IF nbytes <= 0 THEN 0 ELSE 8 * nbytes

\* the steps ev added to the history of the transmissions of channel c
Logged(c, ev) ==
    [tx_log EXCEPT ![c] = @ \o [i \in 1 .. Len(ev) |-> [ev |-> ev[i][1], id |-> ev[i][2]]]]

\* the frame, when send_one_frame put bits on the air for it
FrameStep(f) == IF send_one_frame(f) > 0 THEN <<<<"frame", f.id>>>> ELSE <<>>

AtLoopTest == [XtIdle EXCEPT !.pc = "loop_test"]

\* what the history keeps of a removal: the frame, its queue, and the ids
\* in the high priority queue when the thread examined it for this removal
\* and when the frame was removed
Take(chan, prio, exam) ==
    [id |-> tq_peek(chan, prio).id, prio |-> prio, exam |-> exam,
     hi |-> Ids(tq[chan][TQ_PRIO_0_HI])]

\* What xmit_thread and xmit_ax25_frames do with a frame they have removed:
\* send_one_frame and ax25_delete, or with ok = 0 the message and
\* ax25_delete.  (And what it would be without the ax25_delete of the
\* discard.)
DisposalLeaky(ok) == IF ok # 0 THEN <<"sent", "deleted">> ELSE <<"discarded">>

Disposal(ok) == IF ok # 0 THEN <<"sent", "deleted">> ELSE <<"discarded", "deleted">>

\* the history of frame id after the events ev
Lived(id, ev) == [life EXCEPT ![id] = @ \o ev]

\* An application appends a frame to a send queue (tq_append).
TqAppend ==
    /\ frames_made < MaxFrames
    /\ \E t \in traffic :
         LET c == t[1]
             prio == t[2]
             f == [id |-> frames_made + 1, aprs |-> t[3].aprs, rep1_h |-> t[3].rep1_h,
                   null |-> t[3].null]
         IN  /\ tq' = [tq EXCEPT ![c][prio] = Append(@, f)]
             /\ appended' = [appended EXCEPT ![c][prio] = Append(@, f.id)]
             /\ life' = Lived(f.id, <<"queued">>)
             /\ made' = made \cup {f}
    /\ frames_made' = frames_made + 1
    /\ UNCHANGED <<xt, ptt, audio_out_dev_mutex, varsXmitCfg, cur_tx, last_take, taken,
                   deleted, discarded, tx_log>>
    /\ UNCHANGED <<varsNotXmit, varsDcd>>

\* The demodulator of sub-channel 0, slicer 0 of a channel finds or loses
\* the carrier of a station.
CarrierChange ==
    /\ \E c \in carrier_chans, state \in {0, 1} :
         /\ TestBit(composite_dcd[c][0], 0) # state
         /\ dcd_change(c, 0, 0, state)
    /\ UNCHANGED varsNotDcd

\* xmit_thread: tq_wait_while_empty returns
X_wait_while_empty(c) ==
    /\ xt[c].pc = "idle"
    /\ \E prio \in Prios : tq[c][prio] # <<>>
    /\ xt' = [xt EXCEPT ![c] = AtLoopTest]
    /\ UNCHANGED <<tq, ptt, audio_out_dev_mutex, frames_made, varsXmitCfg, varsXmitHist>>
    /\ UNCHANGED <<varsNotXmit, varsDcd>>

\* the test of the inner while, and the entry of wait_for_clear_channel
\* (first what it would be without the test of fulldup)
X_loop_test_half(c) ==
    /\ xt[c].pc = "loop_test"
    /\ xt' = [xt EXCEPT ![c] =
                IF tq_peek(c, TQ_PRIO_0_HI) # NoFrame \/ tq_peek(c, TQ_PRIO_1_LO) # NoFrame
                THEN [@ EXCEPT !.n = 0, !.pc = "wait_dcd"]
                ELSE XtIdle]
    /\ UNCHANGED <<tq, ptt, audio_out_dev_mutex, frames_made, varsXmitCfg, varsXmitHist>>
    /\ UNCHANGED <<varsNotXmit, varsDcd>>

X_loop_test(c) ==
    /\ xt[c].pc = "loop_test"
    /\ xt' = [xt EXCEPT ![c] =
                IF tq_peek(c, TQ_PRIO_0_HI) # NoFrame \/ tq_peek(c, TQ_PRIO_1_LO) # NoFrame
                THEN [@ EXCEPT !.n = 0,
                               !.pc = IF xmit_fulldup[c] # 0 THEN "try_lock" ELSE "wait_dcd"]
                ELSE XtIdle]
    /\ UNCHANGED <<tq, ptt, audio_out_dev_mutex, frames_made, varsXmitCfg, varsXmitHist>>
    /\ UNCHANGED <<varsNotXmit, varsDcd>>

\* n after SLEEP_MS(WAIT_CHECK_EVERY_MS); n++, and whether the wait is over
\* (and what it would be one poll later)
TimedOutLate(n) == n > (WAIT_TIMEOUT_MS \div WAIT_CHECK_EVERY_MS) + 1

TimedOut(n) == n > (WAIT_TIMEOUT_MS \div WAIT_CHECK_EVERY_MS)

Polled(r, again) ==
    IF TimedOut(r.n + 1)
    THEN [r EXCEPT !.n = r.n + 1, !.ok = 0, !.pc = "take_hi"]
    ELSE [r EXCEPT !.n = r.n + 1, !.pc = again]

\* while (hdlc_rec_data_detect_any(chan))
X_wait_dcd(c) ==
    /\ xt[c].pc = "wait_dcd"
    /\ xt' = [xt EXCEPT ![c] =
                IF hdlc_rec_data_detect_any(c) = 1 THEN Polled(@, "wait_dcd")
                ELSE [@ EXCEPT !.pc = "dwait"]]
    /\ UNCHANGED <<tq, ptt, audio_out_dev_mutex, frames_made, varsXmitCfg, varsXmitHist>>
    /\ UNCHANGED <<varsNotXmit, varsDcd>>

\* after the sleep of dwait: if (hdlc_rec_data_detect_any(chan)) goto start_over_again
X_dwait(c) ==
    /\ xt[c].pc = "dwait"
    /\ xt' = [xt EXCEPT ![c].pc =
                IF hdlc_rec_data_detect_any(c) = 1 THEN "wait_dcd" ELSE "persist"]
    /\ UNCHANGED <<tq, ptt, audio_out_dev_mutex, frames_made, varsXmitCfg, varsXmitHist>>
    /\ UNCHANGED <<varsNotXmit, varsDcd>>

\* while (tq_peek(chan, TQ_PRIO_0_HI) == NULL), and what it would be as
\* while (1)
X_persist_forever(c) ==
    /\ xt[c].pc = "persist"
    /\ xt' = [xt EXCEPT ![c] = [@ EXCEPT !.r = NoDraw, !.pc = "slot"]]
    /\ UNCHANGED <<tq, ptt, audio_out_dev_mutex, frames_made, varsXmitCfg, varsXmitHist>>
    /\ UNCHANGED <<varsNotXmit, varsDcd>>

X_persist(c) ==
    /\ xt[c].pc = "persist"
    /\ xt' = [xt EXCEPT ![c] =
                [@ EXCEPT !.r = NoDraw,
                          !.pc = IF tq_peek(c, TQ_PRIO_0_HI) = NoFrame THEN "slot"
                                 ELSE "try_lock"]]
    /\ UNCHANGED <<tq, ptt, audio_out_dev_mutex, frames_made, varsXmitCfg, varsXmitHist>>
    /\ UNCHANGED <<varsNotXmit, varsDcd>>

\* if (r <= persist) break, and what it would be with r < persist
ProceedsBelow(r, persist) == r < persist

Proceeds(r, persist) == r <= persist

\* after SLEEP_MS(slottime * 10): the channel again, then the random number
\* (first what it would be with the random number before the channel)
X_slot_draw_first(c) ==
    /\ xt[c].pc = "slot"
    /\ \E r \in rand_vals :
         xt' = [xt EXCEPT ![c] =
                  IF Proceeds(r, xmit_persist[c]) THEN [@ EXCEPT !.r = r, !.pc = "try_lock"]
                  ELSE IF hdlc_rec_data_detect_any(c) = 1 THEN [@ EXCEPT !.pc = "wait_dcd"]
                  ELSE [@ EXCEPT !.r = r, !.pc = "persist"]]
    /\ UNCHANGED <<tq, ptt, audio_out_dev_mutex, frames_made, varsXmitCfg, varsXmitHist>>
    /\ UNCHANGED <<varsNotXmit, varsDcd>>

X_slot(c) ==
    /\ xt[c].pc = "slot"
    /\ \E r \in rand_vals :
         xt' = [xt EXCEPT ![c] =
                  IF hdlc_rec_data_detect_any(c) = 1 THEN [@ EXCEPT !.pc = "wait_dcd"]
                  ELSE IF Proceeds(r, xmit_persist[c]) THEN [@ EXCEPT !.r = r, !.pc = "try_lock"]
                  ELSE [@ EXCEPT !.r = r, !.pc = "persist"]]
    /\ UNCHANGED <<tq, ptt, audio_out_dev_mutex, frames_made, varsXmitCfg, varsXmitHist>>
    /\ UNCHANGED <<varsNotXmit, varsDcd>>

\* while (!dw_mutex_try_lock(&(audio_out_dev_mutex[ACHAN2ADEV(chan)])))
X_try_lock(c) ==
    /\ xt[c].pc = "try_lock"
    /\ IF dw_mutex_try_lock(audio_out_dev_mutex[ACHAN2ADEV(c)])
       THEN /\ audio_out_dev_mutex' = [audio_out_dev_mutex EXCEPT ![ACHAN2ADEV(c)] = TRUE]
            /\ xt' = [xt EXCEPT ![c] = [@ EXCEPT !.ok = 1, !.r = NoDraw, !.pc = "take_hi"]]
            /\ tx_log' = Logged(c, <<<<"lock", 0>>>>)
       ELSE /\ audio_out_dev_mutex' = audio_out_dev_mutex
            /\ xt' = [xt EXCEPT ![c] = Polled([@ EXCEPT !.r = NoDraw], "try_lock")]
            /\ UNCHANGED tx_log
    /\ UNCHANGED <<tq, ptt, frames_made, made, varsXmitCfg, cur_tx, last_take, taken, appended,
                   deleted, discarded, life>>
    /\ UNCHANGED <<varsNotXmit, varsDcd>>

\* back in xmit_thread: prio = TQ_PRIO_1_LO; pp = tq_remove(chan, TQ_PRIO_0_HI)
X_take_hi(c) ==
    /\ xt[c].pc = "take_hi"
    /\ LET f == tq_peek(c, TQ_PRIO_0_HI)
           exam == Ids(tq[c][TQ_PRIO_0_HI])
       IN  IF FromHi(f)
           THEN /\ tq' = TqRemoved(c, TQ_PRIO_0_HI)
                /\ xt' = [xt EXCEPT ![c] = [@ EXCEPT !.pp = f, !.prio = TQ_PRIO_0_HI,
                                                     !.exam = exam, !.pc = "dispatch"]]
                /\ last_take' = [last_take EXCEPT ![c] = Take(c, TQ_PRIO_0_HI, exam)]
                /\ taken' = [taken EXCEPT ![c][TQ_PRIO_0_HI] = Append(@, f.id)]
                /\ life' = Lived(f.id, <<"removed">>)
           ELSE /\ xt' = [xt EXCEPT ![c] = [@ EXCEPT !.pp = NoFrame, !.prio = TQ_PRIO_1_LO,
                                                     !.exam = exam, !.pc = "take_lo"]]
                /\ UNCHANGED <<tq, last_take, taken, life>>
    /\ UNCHANGED <<ptt, audio_out_dev_mutex, frames_made, made, varsXmitCfg, cur_tx, appended,
                   deleted, discarded, tx_log>>
    /\ UNCHANGED <<varsNotXmit, varsDcd>>

\* pp = tq_remove(chan, TQ_PRIO_1_LO)
X_take_lo(c) ==
    /\ xt[c].pc = "take_lo"
    /\ LET f == tq_peek(c, TQ_PRIO_1_LO)
       IN  /\ tq' = TqRemoved(c, TQ_PRIO_1_LO)
           /\ xt' = [xt EXCEPT ![c] = [@ EXCEPT !.pp = f, !.pc = "dispatch"]]
           /\ IF f # NoFrame
              THEN /\ last_take' = [last_take EXCEPT ![c] = Take(c, TQ_PRIO_1_LO, xt[c].exam)]
                   /\ taken' = [taken EXCEPT ![c][TQ_PRIO_1_LO] = Append(@, f.id)]
                   /\ life' = Lived(f.id, <<"removed">>)
              ELSE UNCHANGED <<last_take, taken, life>>
    /\ UNCHANGED <<ptt, audio_out_dev_mutex, frames_made, made, varsXmitCfg, cur_tx, appended,
                   deleted, discarded, tx_log>>
    /\ UNCHANGED <<varsNotXmit, varsDcd>>

\* if (pp != NULL): with ok, xmit_ax25_frames up to the first frame sent
\* (PTT on, the flags of txdelay, send_one_frame, ax25_delete); without,
\* the frame is discarded
X_dispatch(c) ==
    /\ xt[c].pc = "dispatch"
    /\ LET r == xt[c]
           pre_flags == MS_TO_BITS(xmit_txdelay[c] * 10, c) \div 8
           nb == send_one_frame(r.pp)
       IN  IF r.pp = NoFrame
           THEN /\ xt' = [xt EXCEPT ![c] = AtLoopTest]
                /\ UNCHANGED <<ptt, cur_tx, deleted, discarded, life, tx_log>>
           ELSE IF r.ok # 0
           THEN /\ ptt' = [ptt EXCEPT ![c] = 1]
                /\ xt' = [xt EXCEPT ![c] =
                            [r EXCEPT !.max_bundle = MaxBundle(frame_flavor(r.pp)),
                                      !.num_bits = layer2_preamble_postamble(c, pre_flags) + nb,
                                      !.numframe = IF nb > 0 THEN 1 ELSE 0,
                                      !.done = 0,
                                      !.pc = "bundle"]]
                /\ tx_log' = Logged(c, <<<<"ptt_on", 0>>, <<"preamble", pre_flags>>>>
                                        \o FrameStep(r.pp))
                /\ cur_tx' = [cur_tx EXCEPT ![c] = IF nb > 0 THEN <<r.pp>> ELSE <<>>]
                /\ deleted' = deleted \cup {r.pp.id}
                /\ life' = Lived(r.pp.id, Disposal(r.ok))
                /\ UNCHANGED discarded
           ELSE /\ xt' = [xt EXCEPT ![c] = AtLoopTest]
                /\ deleted' = deleted \cup {r.pp.id}
                /\ discarded' = discarded \cup {[id |-> r.pp.id, chan |-> c, ptt |-> ptt[c]]}
                /\ life' = Lived(r.pp.id, Disposal(r.ok))
                /\ UNCHANGED <<ptt, cur_tx, tx_log>>
    /\ UNCHANGED <<tq, audio_out_dev_mutex, frames_made, made, varsXmitCfg, last_take, taken,
                   appended>>
    /\ UNCHANGED <<varsNotXmit, varsDcd>>

\* (first what it would be with while (!done))
X_bundle_uncapped(c) ==
    /\ xt[c].pc = "bundle"
    /\ LET r == xt[c]
           f == tq_peek(c, TQ_PRIO_0_HI)
       IN  xt' = [xt EXCEPT ![c] =
                    IF r.done = 0
                    THEN IF FromHi(f)
                         THEN [r EXCEPT !.pp = f, !.prio = TQ_PRIO_0_HI,
                                        !.exam = Ids(tq[c][TQ_PRIO_0_HI]), !.pc = "bundle_act"]
                         ELSE [r EXCEPT !.pp = NoFrame, !.prio = TQ_PRIO_1_LO,
                                        !.exam = Ids(tq[c][TQ_PRIO_0_HI]), !.pc = "peek_lo"]
                    ELSE [r EXCEPT !.pc = "ptt_off"]]
    /\ UNCHANGED <<tq, ptt, audio_out_dev_mutex, frames_made, varsXmitCfg, varsXmitHist>>
    /\ UNCHANGED <<varsNotXmit, varsDcd>>

\* while (numframe < max_bundle && !done): pp = tq_peek(chan, TQ_PRIO_0_HI)
X_bundle(c) ==
    /\ xt[c].pc = "bundle"
    /\ LET r == xt[c]
           f == tq_peek(c, TQ_PRIO_0_HI)
       IN  xt' = [xt EXCEPT ![c] =
                    IF r.numframe < r.max_bundle /\ r.done = 0
                    THEN IF FromHi(f)
                         THEN [r EXCEPT !.pp = f, !.prio = TQ_PRIO_0_HI,
                                        !.exam = Ids(tq[c][TQ_PRIO_0_HI]), !.pc = "bundle_act"]
                         ELSE [r EXCEPT !.pp = NoFrame, !.prio = TQ_PRIO_1_LO,
                                        !.exam = Ids(tq[c][TQ_PRIO_0_HI]), !.pc = "peek_lo"]
                    ELSE [r EXCEPT !.pc = "ptt_off"]]
    /\ UNCHANGED <<tq, ptt, audio_out_dev_mutex, frames_made, varsXmitCfg, varsXmitHist>>
    /\ UNCHANGED <<varsNotXmit, varsDcd>>

\* pp = tq_peek(chan, TQ_PRIO_1_LO)
X_peek_lo(c) ==
    /\ xt[c].pc = "peek_lo"
    /\ xt' = [xt EXCEPT ![c] = [@ EXCEPT !.pp = tq_peek(c, TQ_PRIO_1_LO), !.pc = "bundle_act"]]
    /\ UNCHANGED <<tq, ptt, audio_out_dev_mutex, frames_made, varsXmitCfg, varsXmitHist>>
    /\ UNCHANGED <<varsNotXmit, varsDcd>>

\* the switch on frame_flavor(pp): done = 1, or tq_remove(chan, prio),
\* send_one_frame and ax25_delete; done = 1 when nothing was peeked
X_bundle_act(c) ==
    /\ xt[c].pc = "bundle_act"
    /\ LET r == xt[c]
           f == tq_peek(c, r.prio)
           nb == send_one_frame(f)
       IN  IF r.pp = NoFrame \/ frame_flavor(r.pp) = "FLAVOR_APRS_DIGI"
           THEN /\ xt' = [xt EXCEPT ![c] = [r EXCEPT !.done = 1, !.pc = "bundle"]]
                /\ UNCHANGED <<tq, cur_tx, last_take, taken, deleted, life, tx_log>>
           ELSE /\ tq' = TqRemoved(c, r.prio)
                /\ xt' = [xt EXCEPT ![c] =
                            [r EXCEPT !.pp = f,
                                      !.num_bits = @ + nb,
                                      !.numframe = IF nb > 0 THEN @ + 1 ELSE @,
                                      !.pc = "bundle"]]
                /\ tx_log' = Logged(c, FrameStep(f))
                /\ cur_tx' = [cur_tx EXCEPT ![c] = IF nb > 0 THEN Append(@, f) ELSE @]
                /\ last_take' = [last_take EXCEPT ![c] = Take(c, r.prio, r.exam)]
                /\ taken' = [taken EXCEPT ![c][r.prio] = Append(@, f.id)]
                /\ deleted' = deleted \cup {f.id}
                /\ life' = Lived(f.id, <<"removed">> \o Disposal(1))
    /\ UNCHANGED <<ptt, audio_out_dev_mutex, frames_made, made, varsXmitCfg, appended, discarded>>
    /\ UNCHANGED <<varsNotXmit, varsDcd>>

\* the flags of txtail, audio_wait (after it, already ms have elapsed since
\* PTT on), duration = BITS_TO_MS(num_bits, chan), wait_more = duration, the
\* sleep, ptt_set(OCTYPE_PTT, chan, 0)
X_ptt_off(c) ==
    /\ xt[c].pc = "ptt_off"
    /\ LET post_flags == MS_TO_BITS(xmit_txtail[c] * 10, c) \div 8
           num_bits == xt[c].num_bits + layer2_preamble_postamble(c, post_flags)
           duration == BITS_TO_MS(num_bits, c)
           already == (duration * already_pct) \div 100
           wait_more == duration
       IN  /\ xt' = [xt EXCEPT ![c] = [@ EXCEPT !.num_bits = num_bits, !.pc = "unlock"]]
           /\ tx_log' = Logged(c, <<<<"postamble", post_flags>>, <<"audio_wait", already>>>>
                                   \o (IF wait_more > 0 THEN <<<<"sleep", wait_more>>>> ELSE <<>>)
                                   \o <<<<"ptt_off", 0>>>>)
    /\ ptt' = [ptt EXCEPT ![c] = 0]
    /\ UNCHANGED <<tq, audio_out_dev_mutex, frames_made, made, varsXmitCfg, cur_tx, last_take,
                   taken, appended, deleted, discarded, life>>
    /\ UNCHANGED <<varsNotXmit, varsDcd>>

\* (first what it would be without the unlock)
X_unlock_kept(c) ==
    /\ xt[c].pc = "unlock"
    /\ xt' = [xt EXCEPT ![c] = AtLoopTest]
    /\ tx_log' = Logged(c, <<<<"unlock", 0>>>>)
    /\ UNCHANGED <<tq, ptt, audio_out_dev_mutex, frames_made, made, varsXmitCfg, cur_tx,
                   last_take, taken, appended, deleted, discarded, life>>
    /\ UNCHANGED <<varsNotXmit, varsDcd>>

\* back in xmit_thread: dw_mutex_unlock(&(audio_out_dev_mutex[ACHAN2ADEV(chan)]))
X_unlock(c) ==
    /\ xt[c].pc = "unlock"
    /\ audio_out_dev_mutex' = [audio_out_dev_mutex EXCEPT ![ACHAN2ADEV(c)] = FALSE]
    /\ xt' = [xt EXCEPT ![c] = AtLoopTest]
    /\ tx_log' = Logged(c, <<<<"unlock", 0>>>>)
    /\ UNCHANGED <<tq, ptt, frames_made, made, varsXmitCfg, cur_tx, last_take, taken, appended,
                   deleted, discarded, life>>
    /\ UNCHANGED <<varsNotXmit, varsDcd>>

\* xmit_init: the parameters of the configuration (cfg: baud, txdelay,
\* txtail, persist of every channel), free device locks, PTT off, an
\* xmit_thread for each radio channel at tq_wait_while_empty; the
\* applications have appended the frames hi and then the frames lo to the
\* queues of channel 0 before its thread is scheduled.
InitXmitQueued(traf, carr, fulldup, cfg, hi, lo) ==
    LET nmade == Len(hi) + Len(lo)
        Made(q, base) == [i \in 1 .. Len(q) |->
                            [id |-> base + i, aprs |-> q[i].aprs, rep1_h |-> q[i].rep1_h,
                             null |-> q[i].null]]
        q0 == [prio \in Prios |-> IF prio = TQ_PRIO_0_HI THEN Made(hi, 0)
                                  ELSE Made(lo, Len(hi))]
    IN  /\ tq = [c \in Chans |-> [prio \in Prios |-> IF c = 0 THEN q0[prio] ELSE <<>>]]
        /\ xt = [c \in RadioChans |-> XtIdle]
        /\ ptt = [c \in Chans |-> 0]
        /\ audio_out_dev_mutex = [a \in 0 .. (MAX_ADEVS - 1) |-> FALSE]
        /\ xmit_fulldup = [c \in Chans |-> IF c \in fulldup THEN 1 ELSE 0]
        /\ xmit_persist = [c \in Chans |-> cfg.persist]
        /\ xmit_bits_per_sec = [c \in Chans |-> cfg.baud]
        /\ xmit_txdelay = [c \in Chans |-> cfg.txdelay]
        /\ xmit_txtail = [c \in Chans |-> cfg.txtail]
        /\ traffic = traf
        /\ carrier_chans = carr
        /\ rand_vals = cfg.rand
        /\ already_pct = cfg.already
        /\ frames_made = nmade
        /\ cur_tx = [c \in RadioChans |-> <<>>]
        /\ last_take = [c \in RadioChans |->
                          [id |-> 0, prio |-> TQ_PRIO_1_LO, exam |-> <<>>, hi |-> <<>>]]
        /\ taken = [c \in Chans |-> [prio \in Prios |-> <<>>]]
        /\ appended = [c \in Chans |-> [prio \in Prios |->
                          IF c = 0 THEN Ids(q0[prio]) ELSE <<>>]]
        /\ deleted = {}
        /\ discarded = {}
        /\ life = [id \in 1 .. (IF nmade > MaxFrames THEN nmade ELSE MaxFrames) |->
                     IF id <= nmade THEN <<"queued">> ELSE <<>>]
        /\ tx_log = [c \in RadioChans |-> <<>>]
        /\ made = UNION {{q0[prio][i] : i \in 1 .. Len(q0[prio])} : prio \in Prios}

\* 1200 baud, persist 63, and a tenth of the program's TXDELAY 30 and TXTAIL 10
DefaultCfg ==
    [baud |-> 1200, txdelay |-> 3, txtail |-> 1, persist |-> 63, rand |-> RandVals,
     already |-> 100]

InitXmitWith(traf, carr, fulldup) ==
    InitXmitQueued(traf, carr, fulldup, DefaultCfg, <<>>, <<>>)

InitXmitIdle == InitXmitWith({}, {}, {})

(***************************************************************************)
(* xmit_init (from the creation of the threads on) and recv_init: one      *)
(* pthread_create for each radio channel, for each defined audio device.   *)
(* A pthread_create returns 0 or an error number.                          *)
(***************************************************************************)

AllAdevs == 0 .. (MAX_ADEVS - 1)

\* init is over and every thread runs
Booted ==
    boot = [pc |-> "recv_returned", j |-> MAX_CHANS, a |-> MAX_ADEVS, medium |-> RadioChans,
            defined |-> AudioDevs, xmit_tid |-> RadioChans, recv_tid |-> AudioDevs,
            out |-> <<>>, failed |-> FALSE]

\* for (j = 0; j < MAX_CHANS; j++) if (p_modem->chan_medium[j] == MEDIUM_RADIO)
\* { e = pthread_create(...); if (e != 0) { perror(...); return; } }
XmitInitStep ==
    /\ boot.pc = "xmit_init"
    /\ IF boot.j >= MAX_CHANS
       THEN boot' = [boot EXCEPT !.pc = "xmit_returned"]
       ELSE IF boot.j \notin boot.medium
       THEN boot' = [boot EXCEPT !.j = @ + 1]
       ELSE \/ boot' = [boot EXCEPT !.xmit_tid = @ \cup {boot.j}, !.j = @ + 1]
            \/ boot' = [boot EXCEPT !.failed = TRUE,
                                    !.out = Append(@, "Could not create xmit thread for audio device"),
                                    !.pc = "xmit_returned"]
    /\ UNCHANGED varsNotBoot

\* for (a = 0; a < MAX_ADEVS; a++) if (pa->adev[a].defined)
\* { e = pthread_create(...); if (e != 0) { printf("FATAL: ..."); exit(1); } }
RecvInitStep ==
    /\ boot.pc = "recv_init"
    /\ IF boot.a >= MAX_ADEVS
       THEN boot' = [boot EXCEPT !.pc = "recv_returned"]
       ELSE IF boot.a \notin boot.defined
       THEN boot' = [boot EXCEPT !.a = @ + 1]
       ELSE \/ boot' = [boot EXCEPT !.recv_tid = @ \cup {boot.a}, !.a = @ + 1]
            \/ boot' = [boot EXCEPT !.failed = TRUE,
                                    !.out = Append(@, "FATAL: Could not create audio receive thread for device"),
                                    !.pc = "exited"]
    /\ UNCHANGED varsNotBoot

\* no call of layer2_preamble_postamble yet
NoFlagRun == [nbytes |-> 0, finish |-> 0, flushed |-> 0]

\* counts: number_of_bits_sent as earlier frames have left it
InitSendFrom(pos, l2, counts) ==
    /\ txchan \in RadioChans
    /\ \E lvl \in Bit : output = [c \in Chans |-> IF c = txchan THEN lvl ELSE 0]
    /\ stuff = [c \in Chans |-> 0]
    /\ number_of_bits_sent = counts
    /\ line = [c \in Chans |-> <<>>]
    /\ sent = [c \in Chans |-> <<>>]
    /\ bad_fcs = 0
    /\ spc = pos
    /\ sj = 0
    /\ sret = 0
    /\ layer2_xmit = [c \in Chans |-> l2]
    /\ fx25 = NotCalled
    /\ flagrun = NoFlagRun

InitSendAt(pos, l2) == InitSendFrom(pos, l2, [c \in Chans |-> 0])

\* at the entry of ax25_only_hdlc_send_frame, no FX.25
InitSend == InitSendAt("start", "LAYER2_AX25")

\* The decoder right after a flag received at level lvl.
InitRecAt(lvl) ==
    /\ H = HAfterFlag(lvl)
    /\ rxpos = 0
    /\ blocks = <<>>
    /\ span = [open |-> TRUE, aborted |-> FALSE, bits |-> 0]
    /\ burst = -1
    /\ dbits = <<>>
    /\ levels = [s0 |-> output[txchan], p0 |-> lvl]

InitRec == InitRecAt(output[txchan])

InitHdlc ==
    /\ fbuf \in Payloads
    /\ InitSend
    /\ InitRec
    /\ InitDcdOne
    /\ InitDlq
    /\ Booted
    /\ InitXmitIdle

NextHdlc ==
    \/ SendStartFlag
    \/ SendOctet
    \/ SendFcs
    \/ SendEndFlag
    \/ RecBit

SpecHdlc == InitHdlc /\ [][NextHdlc]_vars

(***************************************************************************)
(* The bit counter: the frame is serialized on a channel that has sent a   *)
(* frame before or not, while the transmit thread of the other channel     *)
(* gives bits of its own frame to send_bit_nrzi.                           *)
(***************************************************************************)

\* The bits the other channel sends meanwhile.
MaxOtherBits == 2

\* number_of_bits_sent after the shortest frame: two flags, the payload and
\* the FCS, nothing stuffed.
EarlierFrameBits == 8 + 8 * (AX25_MIN_PACKET_LEN + 2) + 8

SendBitOther ==
    /\ \E c \in RadioChans \ {txchan}, b \in Bit :
          /\ Len(sent[c]) < MaxOtherBits
          /\ Store(c, send_bit_nrzi(SendState(c), b))
    /\ UNCHANGED <<varsL2, varsFlags, txchan, fbuf, bad_fcs, spc, sj, sret, varsRec, varsNotHdlc>>

\* The payloads of octets 0x00 (nothing stuffed) and 0xFF, sent on channel 0.
CountPayloads == {p \in Payloads : \A i \in 1 .. Len(p) : p[i] \in {0, 255}}

InitCount ==
    /\ fbuf \in CountPayloads
    /\ txchan = 0
    /\ \E e \in {0, EarlierFrameBits} :
          InitSendFrom("start", "LAYER2_AX25",
                       [c \in Chans |-> IF c \in RadioChans THEN e ELSE 0])
    /\ InitRec
    /\ InitDcdOne
    /\ InitDlq
    /\ Booted
    /\ InitXmitIdle

NextCount ==
    \/ NextHdlc
    \/ SendBitOther

SpecCount == InitCount /\ [][NextCount]_vars

(***************************************************************************)
(* A transmission on channel 0: a run of flags, a frame of the shortest    *)
(* legal length, a run of flags, from either line level, while the         *)
(* transmit thread of the other channel gives bits to send_bit_nrzi.       *)
(***************************************************************************)

FlagPayloads == {p \in CountPayloads : Len(p) = AX25_MIN_PACKET_LEN}

InitFlags ==
    /\ fbuf \in FlagPayloads
    /\ txchan = 0
    /\ InitSendFrom("pre", "LAYER2_AX25", [c \in Chans |-> 0])
    /\ InitRec
    /\ InitDcdOne
    /\ InitDlq
    /\ Booted
    /\ InitXmitIdle

NextFlags ==
    \/ SendFlags
    \/ NextHdlc
    \/ SendBitOther

SpecFlags == InitFlags /\ [][NextFlags]_vars

(***************************************************************************)
(* xmit_init with any set of radio channels, or recv_init with any set of  *)
(* defined audio devices; nothing else runs yet.                           *)
(***************************************************************************)
InitBoot ==
    /\ fbuf = <<>>
    /\ InitSend
    /\ txchan = 0
    /\ output[0] = 0
    /\ InitRec
    /\ InitDcdOne
    /\ InitDlq
    /\ InitXmitIdle
    /\ \E medium \in SUBSET Chans, defined \in SUBSET AllAdevs :
         LET start == [pc |-> "xmit_init", j |-> 0, a |-> 0, medium |-> medium,
                       defined |-> {}, xmit_tid |-> {}, recv_tid |-> {}, out |-> <<>>,
                       failed |-> FALSE]
         IN  \/ defined = {} /\ boot = start
             \/ medium = {} /\ boot = [start EXCEPT !.pc = "recv_init", !.defined = defined]

NextBoot ==
    \/ XmitInitStep
    \/ RecvInitStep

SpecBoot == InitBoot /\ [][NextBoot]_vars

(***************************************************************************)
(* layer2_send_frame for one frame, the channel configured for AX.25 or    *)
(* for FX.25, with the decoder of the channel.                             *)
(***************************************************************************)
InitL2 ==
    /\ fbuf \in Payloads
    /\ \E l2 \in {"LAYER2_AX25", "LAYER2_FX25"} : InitSendAt("layer2", l2)
    /\ InitRec
    /\ InitDcdOne
    /\ InitDlq
    /\ Booted
    /\ InitXmitIdle

NextL2 ==
    \/ L2SendFrame
    \/ NextHdlc

SpecL2 == InitL2 /\ [][NextL2]_vars

(***************************************************************************)
(* send_bit_nrzi and the decoder alone: any data bits, the line of the     *)
(* sender at any level, the decoder with any previous raw bit.             *)
(***************************************************************************)

\* The data bits given to send_bit_nrzi in a run.
MaxBits == 5

SendBit ==
    /\ Len(sent[txchan]) < MaxBits
    /\ \E b \in Bit : Store(txchan, send_bit_nrzi(SendState(txchan), b))
    /\ UNCHANGED <<varsL2, varsFlags, txchan, fbuf, bad_fcs, spc, sj, sret, varsRec, varsNotHdlc>>

InitNrzi ==
    /\ fbuf = <<>>
    /\ InitSend
    /\ \E lvl \in Bit : InitRecAt(lvl)
    /\ InitDcdOne
    /\ InitDlq
    /\ Booted
    /\ InitXmitIdle

NextNrzi ==
    \/ SendBit
    \/ RecBit

SpecNrzi == InitNrzi /\ [][NextNrzi]_vars

(***************************************************************************)
(* The frame with a loss of signal somewhere in it: the payloads of the    *)
(* longest legal length over 0x00 and 0xFF, sent on channel 0.             *)
(***************************************************************************)

AbortPayloads ==
    {p \in Payloads : Len(p) = AX25_MAX_PACKET_LEN /\ \A i \in 1 .. Len(p) : p[i] \in {0, 255}}

InitAbort ==
    /\ fbuf \in AbortPayloads
    /\ InitSend
    /\ txchan = 0
    /\ InitRec
    /\ InitDcdOne
    /\ InitDlq
    /\ Booted
    /\ InitXmitIdle

NextAbort ==
    \/ SendStartFlag
    \/ SendOctet
    \/ SendFcs
    \/ SendEndFlag
    \/ RecBit
    \/ HoldLine

SpecAbort == InitAbort /\ [][NextAbort]_vars

(***************************************************************************)
(* The frame buffer of the decoder: besides the payloads above, payloads   *)
(* of all-zeros and all-ones octets that with their FCS fill the frame     *)
(* buffer exactly, or exceed it by three octets; a loss of signal may      *)
(* occur somewhere.                                                        *)
(***************************************************************************)

OverrunPayloads ==
    AbortPayloads \cup
    {[i \in 1 .. n |-> v] : n \in {MAX_FRAME_LEN - 2, MAX_FRAME_LEN + 1}, v \in {0, 255}}

InitOverrun ==
    /\ fbuf \in OverrunPayloads
    /\ InitSend
    /\ txchan = 0
    /\ InitRec
    /\ InitDcdOne
    /\ InitDlq
    /\ Booted
    /\ InitXmitIdle

SpecOverrun == InitOverrun /\ [][NextAbort]_vars

(***************************************************************************)
(* The frames of every length up to the longest, the shortest legal ones   *)
(* and shorter ones among them, sent on channel 0 and received with or     *)
(* without the loss of one bit time.                                       *)
(***************************************************************************)

SlipPayloads == {p \in CountPayloads : Len(p) <= AX25_MAX_PACKET_LEN}

InitSlip ==
    /\ fbuf \in SlipPayloads
    /\ InitSend
    /\ txchan = 0
    /\ InitRec
    /\ InitDcdOne
    /\ InitDlq
    /\ Booted
    /\ InitXmitIdle

NextSlip ==
    \/ NextHdlc
    \/ SlipBit

SpecSlip == InitSlip /\ [][NextSlip]_vars

(***************************************************************************)
(* The carrier detect matrix under every sequence of dcd_change calls and  *)
(* changes of the transmit inhibit inputs, the serializer and the decoder  *)
(* at rest.                                                                *)
(***************************************************************************)

InitDcdSpec ==
    /\ fbuf = <<>>
    /\ InitSend
    /\ txchan = 0
    /\ output[0] = 0
    /\ InitRec
    /\ InitDcd
    /\ InitDlq
    /\ Booted
    /\ InitXmitIdle

NextDcd ==
    \/ DcdChange
    \/ TxInhChange

SpecDcd == InitDcdSpec /\ [][NextDcd]_vars

(***************************************************************************)
(* The received frame queue with the receive threads of the defined audio  *)
(* devices appending and the main thread removing, everything else at      *)
(* rest.                                                                   *)
(***************************************************************************)

InitDlqSpec ==
    /\ fbuf = <<>>
    /\ InitSend
    /\ txchan = 0
    /\ output[0] = 0
    /\ InitRec
    /\ InitDcdOne
    /\ InitDlq
    /\ Booted
    /\ InitXmitIdle

NextDlq ==
    \/ \E a \in AudioDevs : P_new(a)
    \/ \E a \in AudioDevs : P_count(a)
    \/ \E a \in AudioDevs : P_lock(a)
    \/ \E a \in AudioDevs : P_find(a)
    \/ \E a \in AudioDevs : P_link(a)
    \/ \E a \in AudioDevs : P_unlock(a)
    \/ \E a \in AudioDevs : P_notify(a)
    \/ \E a \in AudioDevs : P_signal(a)
    \/ C_check
    \/ C_wu_lock
    \/ C_cond_wait
    \/ C_wake
    \/ C_wu_unlock
    \/ C_rm_lock
    \/ C_rm_read
    \/ C_rm_write
    \/ C_rm_unlock
    \/ C_process

SpecDlq == InitDlqSpec /\ [][NextDlq]_vars

\* The steps of the main thread in recv_process.
RecvProcess ==
    \/ C_check
    \/ C_wu_lock
    \/ C_cond_wait
    \/ C_wake
    \/ C_wu_unlock
    \/ C_rm_lock
    \/ C_rm_read
    \/ C_rm_write
    \/ C_rm_unlock
    \/ C_process

\* The steps of the receive thread of audio device a in dlq_rec_frame.
RecvThread(a) ==
    \/ P_new(a)
    \/ P_count(a)
    \/ P_lock(a)
    \/ P_find(a)
    \/ P_link(a)
    \/ P_unlock(a)
    \/ P_notify(a)
    \/ P_signal(a)

\* Audio device 0 alone defined, and the threads scheduled: a thread that
\* can take a step takes one in the end.  pthread_cond_timedwait returns at
\* its timeout at the latest and app_process_rec_packet returns, so that
\* recv_process is only ever held up by a mutex, which its holder releases.
\* The receive thread, once inside dlq_rec_frame, goes on to its end;
\* whether another frame arrives is left open.
NextDlqLive == RecvThread(0) \/ RecvProcess

SpecDlqLive ==
    /\ InitDlqSpec
    /\ [][NextDlqLive]_vars
    /\ WF_vars(RecvProcess)
    /\ WF_vars(ppc[0] # "idle" /\ RecvThread(0))

\* The same loop with dlq_wait_while_empty called without a timeout.
RecvProcessUntimed ==
    \/ C_check
    \/ C_wu_lock
    \/ C_cond_wait
    \/ C_wake_untimed
    \/ C_wu_unlock
    \/ C_rm_lock
    \/ C_rm_read
    \/ C_rm_write
    \/ C_rm_unlock
    \/ C_process

NextUntimed == RecvThread(0) \/ RecvThread(1) \/ RecvProcessUntimed

SpecUntimed ==
    /\ InitDlqSpec
    /\ [][NextUntimed]_vars
    /\ WF_vars(RecvProcessUntimed)
    /\ \A a \in AudioDevs : WF_vars(ppc[a] # "idle" /\ RecvThread(a))

(***************************************************************************)
(* A long queue: recv_process has been held up, so that the queue holds    *)
(* one or no item less than the length complained about; the receive       *)
(* threads append items up to one more than that length while recv_process *)
(* runs again.                                                             *)
(***************************************************************************)

InitOverflow ==
    /\ fbuf = <<>>
    /\ InitSend
    /\ txchan = 0
    /\ output[0] = 0
    /\ InitRec
    /\ InitDcdOne
    /\ \E n0 \in {DLQ_OUT_OF_CONTROL - 1, DLQ_OUT_OF_CONTROL} :
         InitDlqWith(n0, DLQ_OUT_OF_CONTROL + 1)
    /\ Booted
    /\ InitXmitIdle

SpecOverflow == InitOverflow /\ [][NextDlq]_vars

(***************************************************************************)
(* The transmit side: applications append frames to the send queues of     *)
(* channel 0, the carrier comes and goes, the xmit_thread of the channel   *)
(* transmits; half or full duplex.                                         *)
(***************************************************************************)

InitRest ==
    /\ fbuf = <<>>
    /\ InitSend
    /\ txchan = 0
    /\ output[0] = 0
    /\ InitRec
    /\ InitDcdOne
    /\ InitDlq
    /\ Booted

InitXmit ==
    /\ InitRest
    /\ \E fulldup \in {{}, {0}} : InitXmitWith({0} \X Prios \X FrameShapes, {0}, fulldup)

NextXmit ==
    \/ TqAppend
    \/ CarrierChange
    \/ \E c \in RadioChans : X_wait_while_empty(c)
    \/ \E c \in RadioChans : X_loop_test(c)
    \/ \E c \in RadioChans : X_wait_dcd(c)
    \/ \E c \in RadioChans : X_dwait(c)
    \/ \E c \in RadioChans : X_persist(c)
    \/ \E c \in RadioChans : X_slot(c)
    \/ \E c \in RadioChans : X_try_lock(c)
    \/ \E c \in RadioChans : X_take_hi(c)
    \/ \E c \in RadioChans : X_take_lo(c)
    \/ \E c \in RadioChans : X_dispatch(c)
    \/ \E c \in RadioChans : X_bundle(c)
    \/ \E c \in RadioChans : X_peek_lo(c)
    \/ \E c \in RadioChans : X_bundle_act(c)
    \/ \E c \in RadioChans : X_ptt_off(c)
    \/ \E c \in RadioChans : X_unlock(c)

SpecXmit == InitXmit /\ [][NextXmit]_vars

(***************************************************************************)
(* The same in half duplex with new APRS frames of low priority and        *)
(* digipeated APRS frames of high priority, every xmit_thread scheduled    *)
(* again and again (its sleeps end, it is given the processor).            *)
(***************************************************************************)

XmitThread(c) ==
    \/ X_wait_while_empty(c)
    \/ X_loop_test(c)
    \/ X_wait_dcd(c)
    \/ X_dwait(c)
    \/ X_persist(c)
    \/ X_slot(c)
    \/ X_try_lock(c)
    \/ X_take_hi(c)
    \/ X_take_lo(c)
    \/ X_dispatch(c)
    \/ X_bundle(c)
    \/ X_peek_lo(c)
    \/ X_bundle_act(c)
    \/ X_ptt_off(c)
    \/ X_unlock(c)

\* the random number of a slot is not above persist
SlotWon(c) == X_slot(c) /\ xt'[c].pc = "try_lock"

TimeoutTraffic == {<<0, TQ_PRIO_1_LO, AprsNew>>, <<0, TQ_PRIO_0_HI, AprsDigi>>}

InitTimeout ==
    /\ InitRest
    /\ InitXmitWith(TimeoutTraffic, {0}, {})

SpecTimeout ==
    InitTimeout /\ [][NextXmit]_vars /\ \A c \in RadioChans : WF_vars(XmitThread(c))

(***************************************************************************)
(* Both channels of audio device 0 in use: new APRS frames of either       *)
(* priority for channel 0 and of low priority for channel 1, stations      *)
(* heard on channel 0, channel 1 in half or full duplex.                   *)
(***************************************************************************)

(***************************************************************************)
(* Scenarios: frames are queued on channel 0 before its xmit_thread runs,  *)
(* three of low priority, or a digipeated APRS frame of high priority and  *)
(* then two of low priority; no station is heard, nothing more is queued.  *)
(* Every xmit_thread is scheduled again and again, and the random number   *)
(* of a slot is not above persist for ever.  When audio_wait returns, none, *)
(* half or all of the computed duration of the transmission has elapsed.   *)
(***************************************************************************)

QueuedShapes == {AprsNew, OtherDigi, AprsDigi}

AlreadyPcts == {0, 50, 100}

InitQueued ==
    /\ InitRest
    /\ \E fulldup \in {{}, {0}}, f1, f2, f3 \in QueuedShapes, already \in AlreadyPcts :
         LET cfg == [DefaultCfg EXCEPT !.already = already]
         IN  \/ InitXmitQueued({}, {}, fulldup, cfg, <<>>, <<f1, f2, f3>>)
             \/ /\ f3 = AprsNew
                /\ InitXmitQueued({}, {}, fulldup, cfg, <<AprsDigi>>, <<f1, f2>>)

NextQueued == \E c \in RadioChans : XmitThread(c)

SpecQueued ==
    /\ InitQueued
    /\ [][NextQueued]_vars
    /\ \A c \in RadioChans : WF_vars(XmitThread(c)) /\ SF_vars(SlotWon(c))

(***************************************************************************)
(* Bundles: three frames of low priority, each new or digipeated APRS, not *)
(* APRS, or a null frame (the seize request of the data link), are queued  *)
(* on channel 0 before its xmit_thread runs, after a null frame of high    *)
(* priority or none.                                                       *)
(***************************************************************************)

BundleShapes == QueuedShapes \cup {NullFrame}

InitBundle ==
    /\ InitRest
    /\ \E fulldup \in {{}, {0}}, f1, f2, f3 \in BundleShapes, hi \in {<<>>, <<NullFrame>>} :
         InitXmitQueued({}, {}, fulldup, DefaultCfg, hi, <<f1, f2, f3>>)

SpecBundle == InitBundle /\ [][NextQueued]_vars

(***************************************************************************)
(* Timing parameters: one, two or three frames of low priority are queued  *)
(* on channel 0 before its xmit_thread runs, with every bit rate of        *)
(* BaudRates and every TXDELAY and TXTAIL up to MaxTxdelay and MaxTxtail.  *)
(***************************************************************************)

BaudRates == {300, 1200, 9600}

MaxTxdelay == 4

MaxTxtail == 2

BitsQueues == {<<AprsNew>>, <<AprsNew, OtherDigi>>, <<NullFrame, AprsNew, AprsNew>>}

InitBits ==
    /\ InitRest
    /\ \E fulldup \in {{}, {0}}, lo \in BitsQueues, baud \in BaudRates,
          txdelay \in 0 .. MaxTxdelay, txtail \in 0 .. MaxTxtail :
         InitXmitQueued({}, {}, fulldup,
                        [baud |-> baud, txdelay |-> txdelay, txtail |-> txtail, persist |-> 63,
                         rand |-> RandVals, already |-> 100],
                        <<>>, lo)

SpecBits == InitBits /\ [][NextQueued]_vars

(***************************************************************************)
(* p-persistence: one frame of low priority is queued on channel 0 in half *)
(* duplex, nothing is queued later, stations come and go on the channel,   *)
(* rand() & 0xff takes every value, persist is one of Persists.            *)
(***************************************************************************)

Persists == {0, 1, 63, 254, 255}

InitPersist ==
    /\ InitRest
    /\ \E persist \in Persists :
         InitXmitQueued({}, {0}, {},
                        [DefaultCfg EXCEPT !.persist = persist, !.rand = RandAll],
                        <<>>, <<AprsNew>>)

NextPersist == NextQueued \/ CarrierChange

SpecPersist == InitPersist /\ [][NextPersist]_vars

\* The same, every xmit_thread scheduled again and again and the random
\* number of a slot not above persist for ever; the stations come and go as
\* they like.
SpecWait ==
    /\ InitPersist
    /\ [][NextPersist]_vars
    /\ \A c \in RadioChans : WF_vars(XmitThread(c)) /\ SF_vars(SlotWon(c))

StereoTraffic ==
    {<<0, TQ_PRIO_0_HI, AprsNew>>, <<0, TQ_PRIO_1_LO, AprsNew>>, <<1, TQ_PRIO_1_LO, AprsNew>>}

InitStereo ==
    /\ InitRest
    /\ \E fulldup \in {{}, {1}} : InitXmitWith(StereoTraffic, {0}, fulldup)

SpecStereo == InitStereo /\ [][NextXmit]_vars

\* The same with channel 1 in full duplex and the stations heard on
\* channel 1.
InitDuplex ==
    /\ InitRest
    /\ InitXmitWith(StereoTraffic, {1}, {1})

SpecDuplex == InitDuplex /\ [][NextXmit]_vars

(***************************************************************************)
(* Claims about the serializer and the deframer.                           *)
(***************************************************************************)

\* The whole frame has been sent and demodulated.
FrameDone == spc = "done" /\ rxpos = Len(line[txchan])

FcsOctets(p) == <<fcs_calc(p) % 256, fcs_calc(p) \div 256>>

\* The raw bits put on the line between the two flags, after the last bit
\* of the start flag (which the decoder keeps as the first raw bit).
LineBetweenFlags == SubSeq(line[txchan], 8, Len(line[txchan]) - 8)

\* C1: round trip.  A payload of legal length, serialized with a correct FCS
\* and demodulated bit by bit by a decoder that has just seen a flag, gives
\* exactly one candidate handed to the frame dispatcher, on the last bit of
\* the end flag; its raw bits are the bits sent between the two flags and its
\* de-stuffed octets are the payload followed by the FCS, low octet first.
C1_RoundTrip ==
    (LegalPayload(fbuf) /\ bad_fcs = 0) =>
        /\ Len(blocks) <= 1
        /\ FrameDone =>
              /\ Len(blocks) = 1
              /\ blocks[1].frame = fbuf \o FcsOctets(fbuf)
              /\ blocks[1].rrbb = LineBetweenFlags
        /\ ~FrameDone => blocks = <<>>

\* C1 witness: a legal payload holding 0xFF and 0x3E went round, with
\* stuffed zeros on the line, and came out as one candidate.
C1_Witness ==
    /\ FrameDone
    /\ LegalPayload(fbuf)
    /\ \E i \in 1 .. Len(fbuf) : fbuf[i] = 255
    /\ \E i \in 1 .. Len(fbuf) : fbuf[i] = 62
    /\ Len(line[txchan]) > 16 + 8 * (Len(fbuf) + 2)
    /\ Len(blocks) = 1
    /\ blocks[1].frame = fbuf \o FcsOctets(fbuf)

\* The data bits given to send_bit_nrzi after the start flag and before the
\* end flag: payload, FCS and inserted zeros.
DataSection ==
    LET d == sent[txchan]
    IN  IF spc = "start" THEN <<>>
        ELSE IF spc = "done" THEN SubSeq(d, 9, Len(d) - 8)
        ELSE SubSeq(d, 9, Len(d))

HasOnesRun(d, n) ==
    \E i \in 1 .. (Len(d) - n + 1) : \A k \in 0 .. (n - 1) : d[i + k] = 1

\* C7: bit stuffing.  At every point of the serialization of every payload,
\* from either line level, the data bits emitted after the start flag (and
\* before the end flag) hold no run of six or more 1 bits, across octet
\* boundaries and across the payload/FCS boundary.
C7_NoSixOnes == ~HasOnesRun(DataSection, 6)

\* C7 witness: 64 octets 0xFF have been serialized completely, with zeros
\* inserted, and runs of five 1 bits are on the line.
C7_Witness ==
    /\ spc = "done"
    /\ fbuf = Ones(LongLen)
    /\ Len(DataSection) > 8 * (LongLen + 2)
    /\ sret = Len(sent[txchan])
    /\ HasOnesRun(DataSection, 5)

\* C8 as claimed: no candidate is handed to the frame dispatcher for a
\* flag-to-flag span in which the abort pattern was received.
C8_AbortNoHandoff == \A i \in 1 .. Len(blocks) : ~blocks[i].aborted

(***************************************************************************)
(* Claims about data carrier detect.                                       *)
(***************************************************************************)

\* The decoders of a channel: its sub-channels below num_subchan, each with
\* every slicer.
Decoders(chan) ==
    {t \in {chan} \X (0 .. (num_subchan[chan] - 1)) \X (0 .. (MAX_SLICERS - 1)) : TRUE}

DtmfSlot(chan) == composite_dcd[chan][MAX_SUBCHANS]

C10_DtmfBusy ==
    \A chan \in RadioChans :
        DtmfSlot(chan) # 0 => hdlc_rec_data_detect_any(chan) = 1

(***************************************************************************)
(* Claims about the received frame queue.                                  *)
(***************************************************************************)

IsPrefix(p, q) == Len(p) <= Len(q) /\ SubSeq(q, 1, Len(p)) = p

\* the appended items dlq_remove has not returned yet
Pending == SubSeq(append_order, Len(removed) + 1, Len(append_order))

\* C6: the event queue is a thread-safe multi-producer single-consumer FIFO.
\* Under every interleaving of the appends of the receive threads with the
\* removes of the main thread, the items dlq_remove has returned are the
\* first items in the order in which their appends took the queue mutex
\* (each once, in that order); whenever the mutex is free the list holds
\* exactly the appended items not yet returned, in that order (none lost);
\* and dlq_remove returns NULL only when every appended item has been
\* returned and the list is empty.
C6_QueueFifo ==
    /\ IsPrefix(removed, append_order)
    /\ dlq_mutex = FALSE => Queue = Pending
    /\ (cpc = "rm_unlock" /\ result = 0) => (Queue = <<>> /\ removed = append_order)

\* C6 witness: three items of two receive threads were appended in an order
\* other than that of their allocation and returned in the append order, and
\* a further dlq_remove is returning NULL.
C6_Witness ==
    /\ append_order = <<2, 1, 3>>
    /\ removed = append_order
    /\ heap[1].chan # heap[2].chan
    /\ cpc = "rm_unlock"
    /\ result = 0

(***************************************************************************)
(* Claims about the transmit side.                                         *)
(***************************************************************************)

\* from PTT on to the release of the device lock
InTransmission(c) == xt[c].pc \in {"bundle", "peek_lo", "bundle_act", "ptt_off", "unlock"}

\* C2: per-device mutual exclusion.  For every audio device, under every
\* interleaving of the xmit_threads of its two channels, at most one of
\* them is between PTT on and the release of the device lock.
C2_DeviceExclusive ==
    \A a \in 0 .. (MAX_ADEVS - 1) :
        \A c1, c2 \in {c \in RadioChans : ACHAN2ADEV(c) = a} :
            (InTransmission(c1) /\ InTransmission(c2)) => c1 = c2

\* C2 witness: channel 0 transmits, PTT on, while the xmit_thread of channel
\* 1 has been refused the lock of their device at least once and polls it.
C2_Witness ==
    /\ InTransmission(0)
    /\ ptt[0] = 1
    /\ ACHAN2ADEV(0) = ACHAN2ADEV(1)
    /\ xt[1].pc = "try_lock"
    /\ xt[1].n >= 1

IsAprsDigi(f) == f.aprs /\ f.rep1_h

\* C3: digipeated APRS frames are never bundled.  A transmission that holds
\* a digipeated APRS frame (APRS, first digipeater with the
\* has-been-repeated bit) holds exactly one frame; and when such a frame is
\* found at the head of a queue while a bundle is built, the bundle ends and
\* the frame is still at the head of its queue.
C3_DigiAlone ==
    \A c \in RadioChans :
        /\ (\E i \in 1 .. Len(cur_tx[c]) : IsAprsDigi(cur_tx[c][i])) => Len(cur_tx[c]) = 1
        /\ (xt[c].pc = "bundle" /\ xt[c].done = 1 /\ xt[c].pp # NoFrame) =>
               (IsAprsDigi(xt[c].pp) /\ tq_peek(c, xt[c].prio) = xt[c].pp)

\* C3 witness: a digipeated APRS frame has been sent alone, the bundle is
\* over, PTT is still on, and a new APRS frame waits in the same queue.
C3_Witness ==
    /\ xt[0].pc = "ptt_off"
    /\ Len(cur_tx[0]) = 1
    /\ IsAprsDigi(cur_tx[0][1])
    /\ xt[0].numframe = 1
    /\ tq_peek(0, xt[0].prio) # NoFrame
    /\ frame_flavor(tq_peek(0, xt[0].prio)) = "FLAVOR_APRS_NEW"

InWaitForClear(c) == xt[c].pc \in {"wait_dcd", "dwait", "persist", "slot", "try_lock"}

GaveUp(c) == xt[c].pc \in {"take_hi", "take_lo", "dispatch"} /\ xt[c].ok = 0

Queued(c) == UNION {{tq[c][prio][i].id : i \in 1 .. Len(tq[c][prio])} : prio \in Prios}

\* what holds in every state of a timeout
TimeoutState ==
    /\ \A c \in RadioChans :
         /\ InWaitForClear(c) =>
              (xt[c].n <= WAIT_TIMEOUT_MS \div WAIT_CHECK_EVERY_MS /\ ptt[c] = 0)
         /\ GaveUp(c) =>
              (xt[c].n = (WAIT_TIMEOUT_MS \div WAIT_CHECK_EVERY_MS) + 1 /\ ptt[c] = 0)
    /\ \A d \in discarded :
         /\ d.ptt = 0
         /\ d.id \in deleted
         /\ d.id \notin Queued(d.chan)
         /\ \A i \in 1 .. Len(cur_tx[d.chan]) : cur_tx[d.chan][i].id # d.id

\* C4: scheduler timeout.  In half duplex, an xmit_thread that waits with a
\* frame queued while the channel is busy either sees the channel clear or
\* gives up; it gives up exactly when its count of polls of
\* WAIT_CHECK_EVERY_MS exceeds WAIT_TIMEOUT_MS / WAIT_CHECK_EVERY_MS, PTT is
\* off all through the wait, the frame it then removes is deleted without
\* having been sent and is no longer queued, and the thread comes back to
\* the test of its queues.
C4_TimeoutDiscards ==
    /\ []TimeoutState
    /\ \A c \in RadioChans :
         (xt[c].pc = "wait_dcd" /\ hdlc_rec_data_detect_any(c) = 1)
             ~> (hdlc_rec_data_detect_any(c) = 0 \/ GaveUp(c))
    /\ \A c \in RadioChans : GaveUp(c) ~> (xt[c].pc = "loop_test" /\ discarded # {})

\* C4 witness: a frame of channel 0 was discarded after a timeout, and the
\* thread has gone on to the frame queued behind it, which it transmits.
C4_Witness ==
    /\ \E d \in discarded : d.chan = 0 /\ d.id = 1 /\ d.ptt = 0
    /\ ptt[0] = 1
    /\ cur_tx[0] # <<>>
    /\ cur_tx[0][1].id = 2

\* C5 as claimed: no low priority frame is removed from a queue while a high
\* priority frame is queued on the same channel.
C5_NoLoWhileHiQueued ==
    \A c \in RadioChans :
        (last_take[c].id # 0 /\ last_take[c].prio = TQ_PRIO_1_LO) => last_take[c].hi = <<>>

\* C5, amended: priority order of dequeue.  Every removal of a frame by an
\* xmit_thread (first frame, bundled frame, frame discarded on timeout)
\* takes the oldest frame of the high priority queue if that queue held a
\* frame when the thread examined it for this removal, and the oldest frame
\* of the low priority queue only if it was empty then; frames of one
\* priority leave in the order of their arrival.
C5_HiFirstAsExamined ==
    \A c \in RadioChans :
        /\ (last_take[c].id # 0 /\ last_take[c].prio = TQ_PRIO_1_LO) =>
               last_take[c].exam = <<>>
        /\ (last_take[c].id # 0 /\ last_take[c].prio = TQ_PRIO_0_HI) =>
               (last_take[c].exam # <<>> /\ last_take[c].id = last_take[c].exam[1])
        /\ \A prio \in Prios :
               /\ IsPrefix(taken[c][prio], appended[c][prio])
               /\ taken[c][prio] \o Ids(tq[c][prio]) = appended[c][prio]

\* C5 witness: the low priority frame that arrived first has just been
\* removed after the high priority frame that arrived second, with the high
\* priority queue found empty.
C5_Witness ==
    /\ appended[0][TQ_PRIO_1_LO] = <<1>>
    /\ appended[0][TQ_PRIO_0_HI] = <<2>>
    /\ taken[0][TQ_PRIO_0_HI] = <<2>>
    /\ taken[0][TQ_PRIO_1_LO] = <<1>>
    /\ last_take[0].id = 1
    /\ last_take[0].exam = <<>>

\* the steps of one transmission of the frames ids, and of several
Cycle(log, ids) ==
    /\ Len(log) = 8 + Len(ids)
    /\ [i \in 1 .. 3 |-> log[i].ev] = <<"lock", "ptt_on", "preamble">>
    /\ [i \in 1 .. Len(ids) |-> log[3 + i]] = [i \in 1 .. Len(ids) |-> [ev |-> "frame", id |-> ids[i]]]
    /\ [i \in 1 .. 5 |-> log[3 + Len(ids) + i].ev] =
           <<"postamble", "audio_wait", "sleep", "ptt_off", "unlock">>

Count(log, ev) == Cardinality({i \in 1 .. Len(log) : log[i].ev = ev})

FramesOf(log) ==
    LET at == {i \in 1 .. Len(log) : log[i].ev = "frame"}
        RECURSIVE upto(_)
        upto(n) == IF n = 0 THEN <<>>
                   ELSE IF n \in at THEN Append(upto(n - 1), log[n].id) ELSE upto(n - 1)
    IN  upto(Len(log))

\* three frames of low priority that are not digipeated APRS were queued
ThreeOrdinary ==
    /\ appended[0][TQ_PRIO_0_HI] = <<>>
    /\ appended[0][TQ_PRIO_1_LO] = <<1, 2, 3>>
    /\ \A f \in made : ~IsAprsDigi(f)

BundleDone ==
    /\ xt[0].pc = "idle"
    /\ Cycle(tx_log[0], <<1, 2, 3>>)
    /\ tq[0][TQ_PRIO_0_HI] = <<>>
    /\ tq[0][TQ_PRIO_1_LO] = <<>>
    /\ ptt[0] = 0

\* C14: bundling of ordinary frames.  With three low priority frames that
\* are not digipeated APRS queued on a channel and no carrier, the
\* xmit_thread never turns PTT on a second time and sends the frames in
\* the order of the queue; it comes to rest with the queues empty after one
\* transmission: lock, PTT on, the flags of txdelay, the three frames, the
\* flags of txtail, PTT off, unlock.
C14_BundleOfThree ==
    /\ [](ThreeOrdinary =>
            /\ Count(tx_log[0], "ptt_on") <= 1
            /\ Count(tx_log[0], "ptt_off") <= 1
            /\ IsPrefix(FramesOf(tx_log[0]), <<1, 2, 3>>)
            /\ (xt[0].pc = "idle" /\ tx_log[0] # <<>>) => BundleDone)
    /\ (ThreeOrdinary => <>[]BundleDone)

\* C14 witness: the three frames have gone out in one transmission, new
\* APRS, digipeated not APRS, new APRS, and the thread is at rest.
C14_Witness ==
    /\ ThreeOrdinary
    /\ BundleDone
    /\ life[2] = <<"queued", "removed", "sent", "deleted">>
    /\ xmit_fulldup[0] = 0

\* the channels on whose queues frame id was placed
QueuedOn(id) ==
    {c \in Chans : \E prio \in Prios : \E i \in 1 .. Len(appended[c][prio]) :
                      appended[c][prio][i] = id}

DlqQuiescent == (\A a \in AudioDevs : ppc[a] = "idle") /\ cpc = "wait_check"

\* C12: event-queue items are freed by the consumer.  At every quiescent
\* point the number of items allocated by dlq_rec_frame is the number of
\* items freed by dlq_delete (s_delete_count) plus the number of items
\* still queued.
C12_ItemsFreed == DlqQuiescent => Len(heap) = s_delete_count + Len(Queue)

(***************************************************************************)
(* Claims about NRZI.                                                      *)
(***************************************************************************)

\* C11 as claimed: the data bits the decoder derives are the data bits
\* given to send_bit_nrzi, the first included, whatever the level of the
\* line and the previous raw bit of the decoder were.
C11_NrziRoundTrip == dbits = SubSeq(sent[txchan], 1, rxpos)

\* C11, amended: NRZI round trip.  Every data bit after the first is
\* decoded as it was given to send_bit_nrzi; the first is decoded as given
\* when the previous raw bit of the decoder is the level the line of the
\* sender had, and inverted when it is not.
C11_NrziAfterFirst ==
    /\ Len(dbits) = rxpos
    /\ \A i \in 1 .. rxpos :
         dbits[i] = IF i = 1 /\ levels.p0 # levels.s0
                    THEN 1 - sent[txchan][1]
                    ELSE sent[txchan][i]

\* C11 witness: the line was at 1 and the previous raw bit of the decoder
\* 0; of the data bits 1 1 0 1 the decoder has made 0 1 0 1.
C11_Witness ==
    /\ levels = [s0 |-> 1, p0 |-> 0]
    /\ rxpos = 4
    /\ SubSeq(sent[txchan], 1, 4) = <<1, 1, 0, 1>>
    /\ dbits = <<0, 1, 0, 1>>

\* the bit counts send_one_frame returned for the frames q
RECURSIVE SumBits(_)
SumBits(q) == IF q = <<>> THEN 0 ELSE send_one_frame(Head(q)) + SumBits(Tail(q))

\* xmit_ax25_frames has computed the duration of the transmission of channel c
Counted(c) == xt[c].pc = "unlock"

\* C15 as stated: the bit count of a transmission is txdelay*10*rate/1000
\* plus the bits of each frame sent plus txtail*10*rate/1000.
C15_BitCountAsStated ==
    \A c \in RadioChans :
      Counted(c) =>
        xt[c].num_bits = MS_TO_BITS(xmit_txdelay[c] * 10, c) + SumBits(cur_tx[c])
                           + MS_TO_BITS(xmit_txtail[c] * 10, c)

\* C15, corrected: the preamble and the postamble are whole flag octets, so
\* the bit count of a transmission is 8 * ((txdelay*10*rate/1000) div 8) plus
\* the bits of each frame sent plus 8 * ((txtail*10*rate/1000) div 8); it is
\* never above the stated sum and less than 8 bits short of it for each of
\* the two flag runs.
C15_BitCount ==
    \A c \in RadioChans :
      Counted(c) =>
        LET pre == MS_TO_BITS(xmit_txdelay[c] * 10, c)
            post == MS_TO_BITS(xmit_txtail[c] * 10, c)
            stated == pre + SumBits(cur_tx[c]) + post
        IN  /\ xt[c].num_bits = 8 * (pre \div 8) + SumBits(cur_tx[c]) + 8 * (post \div 8)
            /\ xt[c].num_bits <= stated
            /\ stated - xt[c].num_bits = (pre % 8) + (post % 8)

\* 30 ms and 10 ms at 1200 bit/s are 36 and 12 bits: 4 flags and 1 flag are
\* sent around two frames.
C15_Witness ==
    /\ Counted(0)
    /\ xmit_bits_per_sec[0] = 1200 /\ xmit_txdelay[0] = 3 /\ xmit_txtail[0] = 1
    /\ Len(cur_tx[0]) = 2
    /\ xt[0].num_bits = 32 + 2 * send_one_frame(AprsNew) + 8

\* the frames of each PTT cycle of a history, in the order sent
CyclesOf(log) ==
    LET RECURSIVE upto(_)
        upto(n) ==
            IF n = 0 THEN <<>>
            ELSE LET before == upto(n - 1)
                 IN  IF log[n].ev = "ptt_on" THEN Append(before, <<>>)
                     ELSE IF log[n].ev = "frame" /\ before # <<>>
                     THEN [before EXCEPT ![Len(before)] = Append(@, log[n].id)]
                     ELSE before
    IN  upto(Len(log))

\* the frame made with this id
FrameOfId(id) == CHOOSE f \in made : f.id = id

\* scenario S6: a digipeated APRS frame of high priority (frame 1) and two
\* frames of low priority (frames 2 and 3) were queued on channel 0
ScenarioS6 ==
    /\ appended[0][TQ_PRIO_0_HI] = <<1>>
    /\ appended[0][TQ_PRIO_1_LO] = <<2, 3>>
    /\ \E f \in made : f.id = 1 /\ IsAprsDigi(f)

\* the xmit_thread of channel 0 is at rest: nothing queued, PTT off, and
\* as many PTT off as PTT on
AtRest ==
    /\ xt[0].pc = "idle"
    /\ tq[0][TQ_PRIO_0_HI] = <<>>
    /\ tq[0][TQ_PRIO_1_LO] = <<>>
    /\ ptt[0] = 0
    /\ Count(tx_log[0], "ptt_off") = Count(tx_log[0], "ptt_on")

\* the PTT cycles of scenario S6: the two frames of low priority share a
\* cycle unless one of them is digipeated APRS
CyclesS6 ==
    IF IsAprsDigi(FrameOfId(2)) \/ IsAprsDigi(FrameOfId(3))
    THEN <<<<1>>, <<2>>, <<3>>>>
    ELSE <<<<1>>, <<2, 3>>>>

\* C16 as stated: in scenario S6 the transmit worker performs three
\* separate PTT cycles of one frame each, the digipeated frame in the first.
C16_ThreeCyclesAsStated ==
    ScenarioS6 => <>[](AtRest /\ CyclesOf(tx_log[0]) = <<<<1>>, <<2>>, <<3>>>>)

\* C16, corrected: in scenario S6 the digipeated frame goes first and alone
\* in its PTT cycle; the two frames of low priority follow in one more
\* cycle together when neither is digipeated APRS, and in two more cycles
\* of one frame each when one of them is.
C16_DigipeatFirst ==
    /\ [](ScenarioS6 =>
            /\ IsPrefix(FramesOf(tx_log[0]), <<1, 2, 3>>)
            /\ \A i \in 1 .. Len(CyclesOf(tx_log[0])) :
                  IsPrefix(CyclesOf(tx_log[0])[i], CyclesS6[i])
            /\ (xt[0].pc = "idle" /\ tx_log[0] # <<>>) => CyclesOf(tx_log[0]) = CyclesS6)
    /\ (ScenarioS6 => <>[](AtRest /\ CyclesOf(tx_log[0]) = CyclesS6))

\* C16 witness: the digipeated frame went out alone, then a new APRS frame
\* and a digipeated frame that is not APRS in one transmission.
C16_Witness ==
    /\ ScenarioS6
    /\ AtRest
    /\ frame_flavor(FrameOfId(2)) = "FLAVOR_APRS_NEW"
    /\ frame_flavor(FrameOfId(3)) = "FLAVOR_OTHER"
    /\ FrameOfId(3).rep1_h
    /\ CyclesOf(tx_log[0]) = <<<<1>>, <<2, 3>>>>
    /\ xmit_fulldup[0] = 0

\* the xmit_thread of channel c has slept a slottime, finds no carrier, and
\* goes on
SlotWait(c) ==
    /\ xt[c].pc = "slot"
    /\ xt'[c] # xt[c]
    /\ hdlc_rec_data_detect_any(c) = 0

\* C17: p-persistence.  With only low priority frames queued, in half
\* duplex: after each slottime wait that finds no carrier a number r of
\* 0..255 is drawn, and the thread leaves the random wait for the device
\* lock exactly when r <= persist, otherwise it waits another slottime.
\* With persist 255 one slottime wait is always enough; of the 256 values
\* of r, persist + 1 let the thread go on, one of them with persist 0.
C17_Persistence ==
    /\ [](\A c \in RadioChans :
            /\ Cardinality({r \in RandAll : Proceeds(r, xmit_persist[c])}) = xmit_persist[c] + 1
            /\ xt[c].r # NoDraw =>
                  /\ xt[c].r \in RandAll
                  /\ xt[c].pc \in {"try_lock", "persist"}
                  /\ xt[c].pc = "try_lock" <=> xt[c].r <= xmit_persist[c])
    /\ [][\A c \in RadioChans :
            SlotWait(c) =>
              /\ xt'[c].r \in RandAll
              /\ xmit_persist[c] = 255 => xt'[c].pc = "try_lock"
              /\ xmit_persist[c] = 0 => (xt'[c].pc = "try_lock" <=> xt'[c].r = 0)]_vars

\* C17 witness: with persist 0 the thread has drawn 0 and left the random
\* wait; it is about to try the device lock.
C17_Witness ==
    /\ xmit_persist[0] = 0
    /\ xt[0].pc = "try_lock"
    /\ xt[0].r = 0
    /\ tq[0][TQ_PRIO_0_HI] = <<>>
    /\ xmit_fulldup[0] = 0

\* the steps that may follow a step of a transmission
StepsAfter(ev) ==
    CASE ev = "lock" -> {"ptt_on"}
      [] ev = "ptt_on" -> {"preamble"}
      [] ev = "preamble" -> {"frame", "postamble"}
      [] ev = "frame" -> {"frame", "postamble"}
      [] ev = "postamble" -> {"audio_wait"}
      [] ev = "audio_wait" -> {"sleep", "ptt_off"}
      [] ev = "sleep" -> {"ptt_off"}
      [] ev = "ptt_off" -> {"unlock"}
      [] ev = "unlock" -> {"lock"}

\* a history of transmissions in the order lock, PTT on, preamble, frames,
\* postamble, audio_wait, sleep, PTT off, unlock
InOrder(log) ==
    /\ log # <<>> => log[1].ev = "lock"
    /\ \A i \in 1 .. Len(log) - 1 : log[i + 1].ev \in StepsAfter(log[i].ev)

\* the PTT line and the device lock of channel c agree with its history
LinesAgree(c) ==
    LET log == tx_log[c]
        after(on, off) == {i \in 1 .. Len(log) : log[i].ev = on /\
                              \A j \in (i + 1) .. Len(log) : log[j].ev # off}
    IN  /\ ptt[c] = 1 <=> after("ptt_on", "ptt_off") # {}
        /\ after("lock", "unlock") # {} => audio_out_dev_mutex[ACHAN2ADEV(c)]

\* in the transmission channel c has just ended, the sleep after audio_wait
\* was what remained of the computed duration
SleptTheRest(c) ==
    LET log == tx_log[c]
        n == Len(log)
        duration == BITS_TO_MS(xt[c].num_bits, c)
        slept == IF log[n - 1].ev = "sleep" THEN log[n - 1].id ELSE 0
        already == IF log[n - 1].ev = "sleep" THEN log[n - 2].id ELSE log[n - 1].id
    IN  slept = IF duration > already THEN duration - already ELSE 0

\* the order of the steps of every transmission, each PTT on followed by one
\* PTT off, each device lock released after the PTT off
TxOrder ==
    /\ [](\A c \in RadioChans : InOrder(tx_log[c]) /\ LinesAgree(c))
    /\ \A c \in RadioChans :
         /\ (ptt[c] = 1) ~> (ptt[c] = 0)
         /\ (xt[c].pc \in {"take_hi", "take_lo", "dispatch"} /\ xt[c].ok = 1)
               ~> (xt[c].pc = "loop_test" /\ ~audio_out_dev_mutex[ACHAN2ADEV(c)])

\* C18: order of a transmission.  In every transmission the steps are, in
\* this order: device lock acquired, PTT on, preamble flags, first frame,
\* bundled frames, postamble flags, audio flushed and waited for, sleep for
\* what remains of the computed duration, PTT off, device lock released;
\* each PTT on is followed by one PTT off before the next PTT on, and each
\* device lock acquired is released after the PTT off.
C18_TransmissionOrder ==
    /\ TxOrder
    /\ [](\A c \in RadioChans : Counted(c) => SleptTheRest(c))

\* C19: FX.25 fallback.  On a channel configured for FX.25, when
\* fx25_send_frame returns n <= 0 for a frame, layer2_send_frame sends that
\* frame as plain AX.25 and returns the AX.25 bit count; when it returns
\* n > 0, no AX.25 bits are sent for the frame and n is returned.  The
\* configuration of the channel stays FX.25; a channel not configured for
\* FX.25 never calls fx25_send_frame.
C19_Fx25Fallback ==
    /\ fx25.called <=> (layer2_xmit[txchan] = "LAYER2_FX25" /\ spc # "layer2")
    /\ (fx25.called /\ fx25.n > 0) =>
          /\ spc = "done"
          /\ sret = fx25.n
          /\ line[txchan] = <<>>
          /\ number_of_bits_sent[txchan] = 0
          /\ blocks = <<>>
    /\ (fx25.called /\ fx25.n <= 0) =>
          /\ spc \in {"start", "data", "end", "done"}
          /\ spc = "done" =>
                /\ sret = Len(line[txchan])
                /\ sret = number_of_bits_sent[txchan]
                /\ sret >= 8 * (Len(fbuf) + 4)
          /\ (FrameDone /\ LegalPayload(fbuf)) =>
                /\ Len(blocks) = 1
                /\ blocks[1].frame = fbuf \o FcsOctets(fbuf)

\* C19 witness: fx25_send_frame returned 0 for a legal frame on an FX.25
\* channel; the frame went out as AX.25 and the decoder has it.
C19_Witness ==
    /\ layer2_xmit[txchan] = "LAYER2_FX25"
    /\ fx25 = [called |-> TRUE, n |-> 0]
    /\ FrameDone
    /\ LegalPayload(fbuf)
    /\ Len(blocks) = 1
    /\ blocks[1].frame = fbuf \o FcsOctets(fbuf)
    /\ sret = Len(line[txchan])

\* C20: worker-thread creation failure is fatal.  When the creation of a
\* transmit thread in xmit_init or of a receive thread in recv_init has
\* failed, the process has terminated with a diagnostic; neither function
\* goes on or returns with fewer threads than radio channels, than defined
\* audio devices.
C20_CreateFailureFatal ==
    /\ boot.failed => (boot.pc = "exited" /\ boot.out # <<>>)
    /\ boot.pc = "xmit_returned" => boot.xmit_tid = boot.medium
    /\ boot.pc = "recv_returned" => boot.recv_tid = boot.defined

\* the part that holds: recv_init
RecvCreateFailureFatal ==
    /\ (boot.failed /\ boot.defined # {}) => (boot.pc = "exited" /\ boot.out # <<>>)
    /\ boot.pc = "recv_returned" => boot.recv_tid = boot.defined

\* the items linked into the queue so far, in the order of their appends
Linked ==
    IF \E a \in AudioDevs : ppc[a] \in {"find", "link"}
    THEN SubSeq(append_order, 1, Len(append_order) - 1)
    ELSE append_order

\* the item dlq_remove has unlinked and not yet returned
Unlinked == IF cpc = "rm_unlock" /\ result # 0 THEN <<result>> ELSE <<>>

\* C21: event-queue overflow handling.  An append prints the diagnostic
\* exactly when the number of pending items after the append exceeds 10
\* (the count is exact: it is taken while dlq_mutex is held).  Whatever the
\* length of the queue, a thread inside append_to_queue waits for nothing
\* but dlq_mutex, and every item appended stays in the queue, in order,
\* until dlq_remove takes it: no item, new or old, is dropped.
C21_OverflowHandling ==
    /\ \A a \in AudioDevs :
          /\ ppc[a] = "unlock" =>
                /\ queue_length[a] = Len(Queue)
                /\ Queue[Len(Queue)] = pnew[a]
          /\ (ppc[a] \in {"signal", "idle"} /\ pnew[a] # 0) =>
                (warned[a] <=> queue_length[a] > 10)
          /\ (ppc[a] = "lock" /\ ~dlq_mutex) => ENABLED P_lock(a)
          /\ ppc[a] \in {"find", "link", "unlock", "notify"} =>
                ENABLED (P_find(a) \/ P_link(a) \/ P_unlock(a) \/ P_notify(a))
    /\ removed \o Unlinked \o Queue = Linked

\* C21 witness: one receive thread appended the 10th pending item without
\* the diagnostic, the other the 11th with it.
C21_Witness ==
    /\ \A a \in AudioDevs : ppc[a] = "idle"
    /\ \E a, b \in AudioDevs :
          /\ queue_length[a] = 10 /\ ~warned[a]
          /\ queue_length[b] = 11 /\ warned[b]
    /\ Len(Queue) = 11

\* C22: HDLC decoder state invariant.  After every call of hdlc_rec_bit
\* olen is -1 or from 0 to 7 (it is set to 0 when it reaches 8), frame_len
\* is from 0 to MAX_FRAME_LEN, and the frame buffer holds frame_len octets:
\* an octet completed when frame_len is MAX_FRAME_LEN is not stored.
C22_DecoderState ==
    /\ H.olen \in -1 .. 7
    /\ H.frame_len \in 0 .. MAX_FRAME_LEN
    /\ Len(H.frame_buf) = H.frame_len
    /\ H.olen = -1 => H.frame_len = 0
    /\ (H.olen >= 0 /\ span.open) =>
          \E k \in 0 .. span.bits :
             /\ k <= span.bits
             /\ H.frame_len = IF k \div 8 < MAX_FRAME_LEN THEN k \div 8 ELSE MAX_FRAME_LEN
             /\ H.olen = k % 8

\* C22 witness: more than MAX_FRAME_LEN + 2 octets have arrived since the
\* flag, the frame buffer is full and the decoder is in the middle of the
\* next octet.
C22_Witness ==
    /\ H.frame_len = MAX_FRAME_LEN
    /\ Len(H.frame_buf) = MAX_FRAME_LEN
    /\ H.olen = 3
    /\ span.open /\ ~span.aborted
    /\ span.bits > 8 * (MAX_FRAME_LEN + 2)
    /\ Len(fbuf) = MAX_FRAME_LEN + 1

\* The zeros stuffed into the octets octs sent least significant bit first:
\* one after every fifth 1 in a row (n: bits done, run: ones in a row).
RECURSIVE StuffedZeros(_, _, _)
StuffedZeros(octs, n, run) ==
    IF n = 8 * Len(octs) THEN 0
    ELSE IF (octs[(n \div 8) + 1] \div (2 ^ (n % 8))) % 2 = 0
         THEN StuffedZeros(octs, n + 1, 0)
         ELSE IF run + 1 = 5
              THEN 1 + StuffedZeros(octs, n + 1, 0)
              ELSE StuffedZeros(octs, n + 1, run + 1)

OtherChan == CHOOSE c \in RadioChans : c # txchan

\* C23: the value returned by ax25_only_hdlc_send_frame is the number of
\* bits given to the tone generator for this frame: 8 for the start flag,
\* 8 for each octet of the payload and of the FCS, one for each stuffed
\* zero, 8 for the end flag; the bits of earlier frames on the channel and
\* the bits of the other channel are not in it.
C23_ReturnedBitCount ==
    /\ spc = "done" =>
          /\ sret = Len(sent[txchan])
          /\ sret = 8 + 8 * (Len(fbuf) + 2) + StuffedZeros(fbuf \o FcsOctets(fbuf), 0, 0) + 8
          /\ number_of_bits_sent[txchan] = sret
    /\ number_of_bits_sent[OtherChan] - Len(sent[OtherChan]) \in {0, EarlierFrameBits}

\* C23 witness: a frame with stuffed zeros has been serialized on a channel
\* whose counter stood at the count of an earlier frame, and meanwhile the
\* other channel has sent bits.
C23_Witness ==
    /\ spc = "done"
    /\ Len(fbuf) = AX25_MAX_PACKET_LEN
    /\ StuffedZeros(fbuf \o FcsOctets(fbuf), 0, 0) > 2
    /\ sret = 8 * (Len(fbuf) + 4) + StuffedZeros(fbuf \o FcsOctets(fbuf), 0, 0)
    /\ Len(sent[OtherChan]) = MaxOtherBits
    /\ number_of_bits_sent[OtherChan] = EarlierFrameBits + MaxOtherBits

\* C24 as claimed: no livelock in the CSMA wait.  Whatever the stations on
\* the channel do, every call of wait_for_clear_channel returns, with
\* success or with timeout, so that the frame at the head of the queue is
\* transmitted or discarded.
C24_WaitReturns ==
    \A c \in RadioChans :
        /\ InWaitForClear(c) ~> ~InWaitForClear(c)
        /\ (Queued(c) # {}) ~> (\E id \in 1 .. MaxFrames : id \in deleted)

\* The complete octets the decoder had accumulated between the flags of a
\* candidate: when the last bit of the closing flag arrives, the 7 bits of
\* the flag before it have been accumulated as well.
OctetsBetweenFlags(blk) ==
    IF blk.olen < 0 THEN 0
    ELSE (8 * Len(blk.frame) + blk.olen - 7) \div 8

C27_AbortUntilFlag ==
    /\ [](H.olen = -1 => (H.frame_len = 0 /\ H.frame_buf = <<>>))
    /\ [][Len(dbits') = Len(dbits) + 1 =>
             /\ H'.pat_det = 254 => H'.olen = -1
             /\ H'.pat_det = 126 => H'.olen = 0
             /\ (H.olen = -1 /\ H'.pat_det # 126) =>
                   (H'.olen = -1 /\ H'.oacc = H.oacc /\ H'.frame_buf = <<>>)
             /\ (H.olen >= 0 /\ H'.olen = -1) => H'.pat_det = 254]_vars

\* C27 witness: the abort pattern was received in a frame, more than an
\* octet of bits has arrived since, and the decoder still has olen = -1 and
\* nothing accumulated.
C27_Witness ==
    /\ H.olen = -1
    /\ H.frame_len = 0
    /\ span.aborted
    /\ span.bits > 8
    /\ burst = 0
    /\ H.pat_det # 254

\* xmit_thread c takes a step from position p
StepFrom(c, p) == xt[c].pc = p /\ xt'[c] # xt[c]

Succeeded(c) ==
    xt[c].ok = 1 /\ (xt[c].pc \in {"take_hi", "take_lo", "dispatch"} \/ InTransmission(c))

\* C29: full duplex.  On a channel in full duplex wait_for_clear_channel
\* goes from its entry to the device lock: the thread is never in the busy
\* loop, the dwait delay or the slottime/persist loop and draws no random
\* number, whatever hdlc_rec_data_detect_any is.  It returns 1 only with
\* the device lock taken, by it alone; each refused attempt counts one poll
\* of WAIT_CHECK_EVERY_MS, and it returns 0 when the count exceeds
\* WAIT_TIMEOUT_MS / WAIT_CHECK_EVERY_MS.
C29_FullDuplex ==
    /\ [](\A c \in RadioChans :
            /\ xmit_fulldup[c] # 0 =>
                  (xt[c].pc \notin {"wait_dcd", "dwait", "persist", "slot"} /\ xt[c].r = NoDraw)
            /\ Succeeded(c) =>
                  /\ audio_out_dev_mutex[ACHAN2ADEV(c)]
                  /\ \A c2 \in RadioChans :
                        (Succeeded(c2) /\ ACHAN2ADEV(c2) = ACHAN2ADEV(c)) => c2 = c)
    /\ [][\A c \in RadioChans :
            xmit_fulldup[c] # 0 =>
              /\ StepFrom(c, "loop_test") => xt'[c].pc \in {"try_lock", "idle"}
              /\ StepFrom(c, "try_lock") =>
                    IF audio_out_dev_mutex[ACHAN2ADEV(c)]
                    THEN /\ xt'[c].n = xt[c].n + 1
                         /\ audio_out_dev_mutex' = audio_out_dev_mutex
                         /\ IF xt'[c].n > WAIT_TIMEOUT_MS \div WAIT_CHECK_EVERY_MS
                            THEN xt'[c].pc = "take_hi" /\ xt'[c].ok = 0
                            ELSE xt'[c].pc = "try_lock"
                    ELSE /\ xt'[c].pc = "take_hi"
                         /\ xt'[c].ok = 1
                         /\ xt'[c].n = xt[c].n
                         /\ audio_out_dev_mutex'[ACHAN2ADEV(c)]]_vars

\* C29 witness: channel 1, in full duplex, hears a station; its thread was
\* refused the device lock while channel 0 transmitted, has taken it since
\* and comes back from wait_for_clear_channel with 1.
C29_Witness ==
    /\ xmit_fulldup[1] # 0
    /\ hdlc_rec_data_detect_any(1) = 1
    /\ xt[1].pc = "take_hi"
    /\ xt[1].ok = 1
    /\ xt[1].n >= 1
    /\ audio_out_dev_mutex[ACHAN2ADEV(1)]
    /\ tx_log[0] # <<>>

\* C30: DCD re-assertion restarts the wait.  In half duplex, when the check
\* after the dwait delay or after a slottime finds hdlc_rec_data_detect_any
\* set, the thread goes back to the busy loop, with no random number drawn
\* for that slot and the count of polls as it was; from the busy loop it
\* goes on to the dwait delay only, when the channel is clear; it goes to the
\* device lock from no check that found the channel busy.
C30_DcdRestarts ==
    [][\A c \in RadioChans :
         xmit_fulldup[c] = 0 =>
           /\ (StepFrom(c, "dwait") /\ hdlc_rec_data_detect_any(c) = 1) =>
                 xt'[c] = [xt[c] EXCEPT !.pc = "wait_dcd"]
           /\ (StepFrom(c, "slot") /\ hdlc_rec_data_detect_any(c) = 1) =>
                 (xt'[c] = [xt[c] EXCEPT !.pc = "wait_dcd"] /\ xt'[c].r = NoDraw)
           /\ StepFrom(c, "wait_dcd") =>
                 IF hdlc_rec_data_detect_any(c) = 1
                 THEN xt'[c].pc \in {"wait_dcd", "take_hi"} /\ xt'[c].n = xt[c].n + 1
                 ELSE xt'[c] = [xt[c] EXCEPT !.pc = "dwait"]
           /\ (xt'[c].pc = "try_lock" /\ xt[c].pc # "try_lock") =>
                 /\ xt[c].pc \in {"persist", "slot"}
                 /\ xt[c].pc = "slot" => hdlc_rec_data_detect_any(c) = 0]_vars

\* C30 witness: the thread of channel 0 has polled a busy channel, found it
\* clear, passed the dwait delay and slept a slottime; a station is heard
\* again, which the check after the slottime is about to find.
C30_Witness ==
    /\ xmit_fulldup[0] = 0
    /\ xt[0].pc = "slot"
    /\ xt[0].n >= 1
    /\ xt[0].r = NoDraw
    /\ hdlc_rec_data_detect_any(0) = 1

\* C31 as claimed: the DCD indicator follows the aggregate.  Every step
\* that changes hdlc_rec_data_detect_any(chan), a change of the transmit
\* inhibit input included, drives the DCD indicator of the channel to the
\* new value; a step that leaves it unchanged does not drive the indicator.
C31_IndicatorFollows ==
    [][\A chan \in RadioChans :
         IF hdlc_rec_data_detect_any(chan)' # hdlc_rec_data_detect_any(chan)
         THEN dcd_out'[chan] = hdlc_rec_data_detect_any(chan)'
         ELSE dcd_out'[chan] = dcd_out[chan]]_vars

\* the level of the line of channel c before the first bit
StartLevel(c) == IF c = txchan THEN levels.s0 ELSE 0

\* The levels given to the tone generator for channel c are the NRZI
\* encoding of the bits given to send_bit_nrzi, each from the level before
\* it, and output[c] is the last of them.
LineIsNrzi(c) ==
    /\ Len(line[c]) = Len(sent[c])
    /\ \A i \in 1 .. Len(line[c]) :
          LET prev == IF i = 1 THEN StartLevel(c) ELSE line[c][i - 1]
          IN  line[c][i] = IF sent[c][i] = 0 THEN 1 - prev ELSE prev
    /\ output[c] = IF line[c] = <<>> THEN StartLevel(c) ELSE line[c][Len(line[c])]

\* n octets 0x7E, least significant bit first
RECURSIVE Flags(_)
Flags(n) == IF n <= 0 THEN <<>> ELSE <<0, 1, 1, 1, 1, 1, 1, 0>> \o Flags(n - 1)

\* a call of layer2_preamble_postamble returns
FlagsReturn == spc \in {"pre", "done"} /\ spc' \in {"start", "post"}

\* C32: flag runs.  layer2_preamble_postamble(chan, nbytes, finish) gives
\* send_bit_nrzi the bits of nbytes octets 0x7E, least significant bit
\* first, and nothing else (no stuffed zero, in a flag, between flags or
\* after a frame), the tone generator one level for each; it returns
\* 8 * nbytes, leaves stuff[chan] at 0, and calls audio_flush once if
\* finish is not 0 and not at all if it is 0.
C32_FlagRuns ==
    /\ [](spc \in {"pre", "start", "done", "post"} => stuff[txchan] = 0)
    /\ [](spc \in {"start", "post"} => LineIsNrzi(txchan))
    /\ [][FlagsReturn =>
             /\ sent'[txchan] = sent[txchan] \o Flags(flagrun'.nbytes)
             /\ Len(line'[txchan]) = Len(line[txchan]) + 8 * flagrun'.nbytes
             /\ sret' = 8 * flagrun'.nbytes
             /\ number_of_bits_sent'[txchan] = sret'
             /\ stuff'[txchan] = 0
             /\ flagrun'.flushed = flagrun.flushed + (IF flagrun'.finish # 0 THEN 1 ELSE 0)]_vars
    /\ [][~FlagsReturn => flagrun' = flagrun]_vars

\* C32 witness: a frame of 0xFF octets, with stuffed zeros, has been sent
\* between a preamble of MaxFlagOctets flags without audio_flush and a
\* postamble of as many with it.
C32_Witness ==
    /\ spc = "post"
    /\ fbuf = Ones(AX25_MIN_PACKET_LEN)
    /\ flagrun = [nbytes |-> MaxFlagOctets, finish |-> 1, flushed |-> 1]
    /\ sret = 8 * MaxFlagOctets
    /\ SubSeq(sent[txchan], 1, 8 * MaxFlagOctets) = Flags(MaxFlagOctets)
    /\ Len(sent[txchan]) > 8 * (2 * MaxFlagOctets + AX25_MIN_PACKET_LEN + 4)

\* C33: per-channel serializer state.  On every channel each level given to
\* the tone generator is derived from the level given before it on that
\* channel, across the flag runs and the frame (output[chan] is set by
\* send_bit_nrzi only); a step that sends no bit on a channel leaves the
\* line state, the stuffing counter and the bit counter of that channel as
\* they were, whatever is sent on the other channel.
C33_PerChannelState ==
    /\ [](\A c \in RadioChans : LineIsNrzi(c))
    /\ [][\A c \in RadioChans :
            sent'[c] = sent[c] =>
              /\ output'[c] = output[c]
              /\ stuff'[c] = stuff[c]
              /\ line'[c] = line[c]
              /\ (number_of_bits_sent'[c] = number_of_bits_sent[c]
                    \/ (c = txchan /\ FlagsReturn /\ flagrun'.nbytes = 0))]_vars

\* C33 witness: the transmission of channel 0 began with the line at 1; the
\* preamble, the frame and the postamble have been sent, and the line is at
\* the level the bits lead to; channel 1 has sent bits meanwhile and its
\* line is at the other level.
C33_Witness ==
    /\ spc = "post"
    /\ levels.s0 = 1
    /\ flagrun.nbytes = MaxFlagOctets
    /\ Len(line[0]) >= 8 * (MaxFlagOctets + AX25_MIN_PACKET_LEN + 4)
    /\ Len(sent[1]) = MaxOtherBits
    /\ number_of_bits_sent[1] = MaxOtherBits
    /\ output[0] # output[1]

Appended(i) == \E k \in 1 .. Len(append_order) : append_order[k] = i

Dispatched(i) == \E k \in 1 .. Len(dispatched) : dispatched[k] = i

\* C34: consumer liveness.  Every item appended to the queue is in the end
\* given to app_process_rec_packet; the items dispatched are those removed,
\* each once and in the order of the queue, at most the one being
\* dispatched missing; no NULL item is dispatched, whatever the wait
\* reported: a NULL result of dlq_remove goes round the loop.
C34_ConsumerLiveness ==
    /\ \A i \in 1 .. MaxItems : Appended(i) ~> Dispatched(i)
    /\ [](/\ IsPrefix(dispatched, removed)
          /\ IsPrefix(removed, append_order)
          /\ Len(removed) - Len(dispatched) = (IF cpc = "process" THEN 1 ELSE 0)
          /\ \A k \in 1 .. Len(dispatched) :
                /\ dispatched[k] # 0
                /\ \A j \in 1 .. Len(dispatched) : dispatched[j] = dispatched[k] => j = k)
    /\ [][(cpc = "rm_unlock" /\ result = 0) => (cpc' \in {cpc, "wait_check"} /\ dispatched' = dispatched)]_vars

\* C34 witness: three items were appended, all three have been dispatched
\* in that order, and recv_process waits on the empty queue again.
C34_Witness ==
    /\ append_order = <<1, 2, 3>>
    /\ dispatched = append_order
    /\ Queue = <<>>
    /\ cpc = "blocked"

\* C35 as claimed: leak monitor accuracy.  Whenever no receive thread is
\* between its calloc and the end of its s_new_count++, the difference of
\* the two counters is the number of items allocated and not freed (the
\* items freed are those dlq_delete has counted, in the one thread that
\* could call it).
C35_MonitorAccurate ==
    (\A a \in AudioDevs : ppc[a] # "count") =>
        s_new_count - s_delete_count = Len(heap) - s_delete_count

\* C36 as claimed: no lost wake-up.  With dlq_wait_while_empty called
\* without a timeout, the consumer blocked on the condition variable while
\* an item is in the queue is in the end no longer blocked.
C36_NoLostWakeup == (cpc = "blocked" /\ queue_head # 0) ~> (cpc # "blocked")

\* the threads between a return of 1 by wait_for_clear_channel and the end
\* of the unlock of the ok branch, on the channels of audio device a
Holders(a) == {c \in RadioChans : ACHAN2ADEV(c) = a /\ Succeeded(c)}

TakenOf(c) == taken[c][TQ_PRIO_0_HI] \o taken[c][TQ_PRIO_1_LO]

NullTaken(c) == Cardinality({i \in 1 .. Len(TakenOf(c)) : FrameOfId(TakenOf(c)[i]).null})

\* the frame the bundling loop would peek on channel c
HeadOf(c) ==
    IF tq_peek(c, TQ_PRIO_0_HI) # NoFrame THEN tq_peek(c, TQ_PRIO_0_HI)
    ELSE tq_peek(c, TQ_PRIO_1_LO)

\* xmit_ax25_frames is between two frames, or past its loop
BetweenFrames(c) == xt[c].pc \in {"bundle", "ptt_off", "unlock"}

\* the cap, the count and the end of the loop of a transmission of channel c
CapKept(c) ==
    /\ InTransmission(c) =>
          /\ xt[c].max_bundle = (IF cur_tx[c] # <<>> /\ IsAprsDigi(cur_tx[c][1]) THEN 1 ELSE 256)
          /\ xt[c].numframe = Len(cur_tx[c])
          /\ xt[c].numframe <= xt[c].max_bundle
    /\ xt[c].pc = "ptt_off" =>
          \/ xt[c].numframe = xt[c].max_bundle
          \/ HeadOf(c) = NoFrame
          \/ IsAprsDigi(HeadOf(c))

\* C38 as claimed: bundle cap.  In every transmission the frames sent are
\* at most the cap of its first frame, the loop ends at the cap, with both
\* queues empty or with a digipeated APRS frame at the head, and every
\* frame removed from a queue has been counted: over the transmissions so
\* far, as many frames counted (and logged as sent) as removed.
C38_EveryRemovalCounts ==
    \A c \in RadioChans :
        /\ CapKept(c)
        /\ BetweenFrames(c) => Len(TakenOf(c)) = Len(FramesOf(tx_log[c]))

\* C38, corrected: the same, with the frames counted those for which
\* send_one_frame returned a number of bits above 0: a null frame is
\* removed and deleted in the transmission without being counted.
C38_BundleCap ==
    \A c \in RadioChans :
        /\ CapKept(c)
        /\ BetweenFrames(c) => Len(TakenOf(c)) = Len(FramesOf(tx_log[c])) + NullTaken(c)

\* C38 witness: a null frame of high priority, a new APRS frame, a null
\* frame and a digipeated APRS frame were queued; the transmission has
\* removed three frames, counted one, and ended its loop at the digipeated
\* frame, far from its cap.
C38_Witness ==
    /\ xt[0].pc = "ptt_off"
    /\ Len(TakenOf(0)) = 3
    /\ NullTaken(0) = 2
    /\ xt[0].numframe = 1
    /\ xt[0].max_bundle = 256
    /\ IsAprsDigi(HeadOf(0))

\* C39 as claimed: timeout accounting.  The time a call of
\* wait_for_clear_channel has slept is within the budget of WAIT_TIMEOUT_MS;
\* stated for the part of it that the counter shows, the n sleeps of
\* WAIT_CHECK_EVERY_MS in the busy loop and the lock loop, to which the
\* sleeps of dwait and of the slot time add.
C39_SleepWithinBudget ==
    \A c \in RadioChans : xt[c].n * WAIT_CHECK_EVERY_MS <= WAIT_TIMEOUT_MS

====
